---- MODULE Spec2Model ----
(***************************************************************************)
(* FormatFusion: the conversion service (services/conversion_service.py),  *)
(* the models (models/file_info.py, models/conversion_options.py) and the  *)
(* view model with its worker thread (viewmodels/main_viewmodel.py).       *)
(*                                                                         *)
(* A conversion is one run of ConversionService.convert_file.  Its steps   *)
(* are the blocking calls of the code: image load, each save / getsize /   *)
(* remove / replace of the size search, the capability probe and each      *)
(* engine run.  The environment (what an encode measures, whether a file   *)
(* operation raises, what the engine returns) is chosen at the step that   *)
(* asks for it.  Three scenarios start conversions:                        *)
(*   mode "gui"    the view model drives: the worker thread that           *)
(*                 start_conversion creates calls convert_file; the user   *)
(*                 leaves the size limit off (Spec);                       *)
(*   mode "api"    convert_file is called directly, again and again, with  *)
(*                 any file and any options without a size limit           *)
(*                 (SpecService);                                          *)
(*   mode "image"  convert_file is called once on an image, with any image *)
(*                 options, whatever is at the destination (SpecImage).    *)
(* Three more specifications look at what comes before a conversion:       *)
(*   SpecModels    FileInfo and ConversionOptions built by any caller, for *)
(*                 every listed extension in several cases (mode "models");*)
(*   SpecOptions   the options panel: files loaded and cleared, options   *)
(*                 set with the values the view passes, and a conversion   *)
(*                 started at the default destination;                     *)
(*   SpecStartup   main() and ConversionService() from their first line,   *)
(*                 on every machine: engine on the PATH or not, bundled    *)
(*                 files there or not.                                     *)
(* Two more stand beside them:                                             *)
(*   SpecProgress  one direct call of _run_ffmpeg_with_progress (mode      *)
(*                 "progress");                                            *)
(*   SpecLive      mode "gui" under the scheduling of the worker thread    *)
(*                 and the event loop, for what happens in the end.        *)
(***************************************************************************)
EXTENDS Integers, Sequences, FiniteSets, TLC

\* ------------------------------------------------------------------ bounds

\* start_conversion calls that create a worker (gui), convert_file calls (api)
MaxStarts == 2

\* ------------------------------------------------- Optional[T] of the code

None == {}
Some(x) == {x}
Get(o) == CHOOSE x \in o : TRUE

Last(s) == s[Len(s)]

\* ------------------------------------------------- models/file_info.py
\* (a path is its stem and its suffix, as pathlib splits it; a suffix is the tuple of
\* its characters, "" the empty tuple)

image_extensions ==
    { <<".", "p", "n", "g">>, <<".", "j", "p", "g">>, <<".", "j", "p", "e", "g">>,
      <<".", "b", "m", "p">>, <<".", "t", "i", "f", "f">>, <<".", "g", "i", "f">>,
      <<".", "w", "e", "b", "p">> }
audio_extensions ==
    { <<".", "w", "a", "v">>, <<".", "m", "4", "a">>, <<".", "f", "l", "a", "c">>,
      <<".", "o", "g", "g">>, <<".", "m", "p", "3">>, <<".", "a", "a", "c">>,
      <<".", "w", "m", "a">> }
video_extensions ==
    { <<".", "m", "k", "v">>, <<".", "m", "o", "v">>, <<".", "a", "v", "i">>,
      <<".", "w", "e", "b", "m">>, <<".", "f", "l", "v">>, <<".", "m", "p", "4">>,
      <<".", "w", "m", "v">>, <<".", "m", "4", "v">> }

ascii_lowercase ==
    << "a", "b", "c", "d", "e", "f", "g", "h", "i", "j", "k", "l", "m",
       "n", "o", "p", "q", "r", "s", "t", "u", "v", "w", "x", "y", "z" >>
ascii_uppercase ==
    << "A", "B", "C", "D", "E", "F", "G", "H", "I", "J", "K", "L", "M",
       "N", "O", "P", "Q", "R", "S", "T", "U", "V", "W", "X", "Y", "Z" >>

\* the lower-case letter of each upper-case one
lower_of ==
    [c \in {ascii_uppercase[k] : k \in DOMAIN ascii_uppercase} |->
        ascii_lowercase[CHOOSE k \in DOMAIN ascii_uppercase : ascii_uppercase[k] = c]]

lower_same(suffix) == suffix

\* str.lower(): each upper-case letter becomes its lower-case one, the rest stays
lower(suffix) ==
    [i \in DOMAIN suffix |->
        IF suffix[i] \in DOMAIN lower_of THEN lower_of[suffix[i]] ELSE suffix[i]]

detect_file_type(file_path) ==
    LET extension == lower(file_path.suffix) IN
    IF extension \in image_extensions THEN "image"
    ELSE IF extension \in audio_extensions THEN "audio"
    ELSE IF extension \in video_extensions THEN "video"
    ELSE "unsupported"

\* stat: what self.file_path.stat() gives: Some(st_size), or None when it raises OSError
get_file_size(stat) == IF stat = None THEN 0 ELSE Get(stat)

FileInfo_any(file_path, stat) ==
    [file_path |-> file_path,
     file_type |-> detect_file_type(file_path),
     file_size |-> get_file_size(stat),
     is_valid  |-> TRUE]

FileInfo(file_path, stat) ==
    LET file_type == detect_file_type(file_path) IN
    [file_path |-> file_path,
     file_type |-> file_type,
     file_size |-> get_file_size(stat),
     is_valid  |-> file_type # "unsupported"]

\* ------------------------------------------ models/conversion_options.py

ImageConversionOptions(output_format) ==
    [output_format |-> output_format, resize_enabled |-> FALSE,
     max_width |-> None, max_height |-> None,
     size_limit_enabled |-> FALSE, max_size_kb |-> None]

AudioConversionOptions == [quality |-> "192"]

VideoConversionOptions == [quality |-> "original", fast_mode |-> TRUE]

\* the dataclass constructor, then __post_init__
ConversionOptions(file_type, image_options, audio_options, video_options) ==
    [file_type |-> file_type,
     image_options |-> IF file_type = "image" /\ image_options = None
                       THEN Some(ImageConversionOptions("png")) ELSE image_options,
     audio_options |-> IF file_type = "audio" /\ audio_options = None
                       THEN Some(AudioConversionOptions) ELSE audio_options,
     video_options |-> IF file_type = "video" /\ video_options = None
                       THEN Some(VideoConversionOptions) ELSE video_options]

is_valid_any(options) ==
    /\ options.file_type # "unsupported"
    /\ \/ options.image_options # None
       \/ options.audio_options # None
       \/ options.video_options # None

is_valid(options) ==
    IF options.file_type = "unsupported" THEN FALSE
    ELSE IF options.file_type = "image" THEN options.image_options # None
    ELSE IF options.file_type = "audio" THEN options.audio_options # None
    ELSE IF options.file_type = "video" THEN options.video_options # None
    ELSE FALSE

\* ------------------------------------- services/conversion_service.py: plans

HW_IDS == {"h264_nvenc", "h264_qsv", "h264_vaapi"}

detect_without_except(stdout, raised) ==
    IF raised THEN [type |-> "raised", available |-> FALSE]
    ELSE IF "h264_nvenc" \in stdout THEN [type |-> "nvenc", available |-> TRUE]
    ELSE IF "h264_qsv" \in stdout THEN [type |-> "qsv", available |-> TRUE]
    ELSE IF "h264_vaapi" \in stdout
         THEN [type |-> "vaapi", device |-> "/dev/dri/renderD128", available |-> TRUE]
    ELSE [type |-> "software", available |-> FALSE]

detect_qsv_first(stdout, raised) ==
    IF raised THEN [type |-> "software", available |-> FALSE]
    ELSE IF "h264_qsv" \in stdout THEN [type |-> "qsv", available |-> TRUE]
    ELSE IF "h264_nvenc" \in stdout THEN [type |-> "nvenc", available |-> TRUE]
    ELSE IF "h264_vaapi" \in stdout
         THEN [type |-> "vaapi", device |-> "/dev/dri/renderD128", available |-> TRUE]
    ELSE [type |-> "software", available |-> FALSE]

\* stdout: the identifiers the encoder listing holds; raised: subprocess.run raised
detect_hardware_acceleration(stdout, raised) ==
    IF raised THEN [type |-> "software", available |-> FALSE]
    ELSE IF "h264_nvenc" \in stdout THEN [type |-> "nvenc", available |-> TRUE]
    ELSE IF "h264_qsv" \in stdout THEN [type |-> "qsv", available |-> TRUE]
    ELSE IF "h264_vaapi" \in stdout
         THEN [type |-> "vaapi", device |-> "/dev/dri/renderD128", available |-> TRUE]
    ELSE [type |-> "software", available |-> FALSE]

NoArgs == [k \in {} |-> ""]

settings_table_one_crf(quality, fast_mode) ==
    LET preset == IF fast_mode THEN "ultrafast" ELSE "fast"
        crf    == IF fast_mode THEN "30" ELSE "28"
        row(vf, ab) ==
            [vcodec |-> "libx264", acodec |-> "aac",
             video_args  |-> vf @@ ("preset" :> preset) @@ ("crf" :> crf),
             audio_args  |-> ("ar" :> "44100") @@ ("ab" :> ab),
             global_args |-> ("threads" :> "0")]
    IN  CASE quality = "480p"  -> row("vf" :> "scale=854:480", "128k")
          [] quality = "720p"  -> row("vf" :> "scale=1280:720", "128k")
          [] quality = "1080p" -> row("vf" :> "scale=1920:1080", "192k")
          [] OTHER -> row([k \in {} |-> ""], "192k")

\* the settings table before the hardware override
settings_table(quality, fast_mode) ==
    LET preset == IF fast_mode THEN "ultrafast" ELSE "fast"
        crf    == IF fast_mode THEN "30" ELSE "28"
        row(vf, c, ab) ==
            [vcodec |-> "libx264", acodec |-> "aac",
             video_args  |-> vf @@ ("preset" :> preset) @@ ("crf" :> c),
             audio_args  |-> ("ar" :> "44100") @@ ("ab" :> ab),
             global_args |-> ("threads" :> "0")]
    IN  CASE quality = "480p"  -> row("vf" :> "scale=854:480", crf, "128k")
          [] quality = "720p"  -> row("vf" :> "scale=1280:720", crf, "128k")
          [] quality = "1080p" -> row("vf" :> "scale=1920:1080", crf, "192k")
          [] OTHER -> row(NoArgs, IF fast_mode THEN "25" ELSE "23", "192k")

get_optimized_video_settings(quality, fast_mode, hw_accel) ==
    LET s == settings_table(quality, fast_mode) IN
    IF hw_accel.type = "nvenc"
    THEN [s EXCEPT !.vcodec = "h264_nvenc",
                   !.video_args = ("preset" :> "fast") @@ ("tune" :> "hq") @@ @]
    ELSE IF hw_accel.type = "qsv"
    THEN [s EXCEPT !.vcodec = "h264_qsv",
                   !.video_args = ("preset" :> "fast") @@ @]
    ELSE IF hw_accel.type = "vaapi"
    THEN [s EXCEPT !.vcodec = "h264_vaapi",
                   !.video_args = ("vaapi_device" :> hw_accel.device) @@ @]
    ELSE s

\* the keyword arguments of ffmpeg.output in _convert_video
video_output(settings) ==
    [vcodec |-> settings.vcodec, acodec |-> settings.acodec,
     args |-> settings.video_args @@ settings.audio_args @@ settings.global_args]

fallback_output_scaled ==
    [vcodec |-> "libx264", acodec |-> "aac",
     args |-> ("vf" :> "scale=1280:720") @@ ("preset" :> "ultrafast") @@ ("crf" :> "28")]

\* the keyword arguments of ffmpeg.output in _fallback_video_conversion
fallback_output ==
    [vcodec |-> "libx264", acodec |-> "aac",
     args |-> ("preset" :> "ultrafast") @@ ("crf" :> "28")]

\* the keyword arguments of ffmpeg.output in _convert_audio
audio_output(quality) ==
    [acodec |-> "mp3",
     args |-> ("audio_bitrate" :>
                 CASE quality = "128" -> "128k" [] quality = "192" -> "192k"
                   [] quality = "256" -> "256k" [] OTHER -> "320k")]

\* ------------------------------- services/conversion_service.py: image search

\* list(range(start, stop, -step)) for start > stop
range_down(start, stop, step) ==
    [i \in 1..((start - stop - 1) \div step + 1) |-> start - step * (i - 1)]

format_name_of(output_format) == IF output_format = "jpg" THEN "JPEG" ELSE "PNG"

optimize_levels_rising(format_name) ==
    IF format_name = "JPEG" THEN [i \in 1..19 |-> 5 * i] ELSE [i \in 1..10 |-> i - 1]

optimize_levels_to_10(format_name) ==
    IF format_name = "JPEG" THEN range_down(95, 9, 5) ELSE range_down(9, -1, 1)

\* the levels of the sweep at the image's own dimensions
optimize_levels(format_name) ==
    IF format_name = "JPEG" THEN range_down(95, 4, 5) ELSE range_down(9, -1, 1)

aggressive_levels_to_15(format_name) ==
    IF format_name = "JPEG" THEN range_down(85, 14, 10) ELSE range_down(9, -1, 2)

\* the levels of the sweep at each reduced scale
aggressive_levels(format_name) ==
    IF format_name = "JPEG" THEN range_down(85, 4, 10) ELSE range_down(9, -1, 2)

\* [0.5, 0.3, 0.2, 0.1, 0.05]; int(w * scale) is (w * num) \div den for these
scales == << [num |-> 1, den |-> 2], [num |-> 3, den |-> 10], [num |-> 1, den |-> 5],
             [num |-> 1, den |-> 10], [num |-> 1, den |-> 20] >>

new_size(img, si) ==
    [width  |-> (img.width * scales[si].num) \div scales[si].den,
     height |-> (img.height * scales[si].num) \div scales[si].den]

minimum_level_10(format_name) == IF format_name = "JPEG" THEN 10 ELSE 9

\* the level of the forced save: quality=5, or compress_level=9
minimum_level(format_name) == IF format_name = "JPEG" THEN 5 ELSE 9

Abs(n) == IF n < 0 THEN -n ELSE n

\* Image.thumbnail((max_width, max_height)): shrink to fit, keep the aspect ratio
thumbnail(img, max_width, max_height) ==
    IF max_width >= img.width /\ max_height >= img.height THEN img
    ELSE IF max_width * img.height >= img.width * max_height
    THEN LET lo == (max_height * img.width) \div img.height
             hi == IF lo * img.height = max_height * img.width THEN lo ELSE lo + 1
             key(n) == Abs(img.width * max_height - n * img.height)
             x == IF key(hi) < key(lo) THEN hi ELSE lo
         IN  [img EXCEPT !.width = IF x < 1 THEN 1 ELSE x, !.height = max_height]
    ELSE LET lo == (max_width * img.height) \div img.width
             hi == IF lo * img.width = max_width * img.height THEN lo ELSE lo + 1
             key(n, m) == IF n = 0 THEN 0 ELSE Abs(img.width * n - max_width * img.height) * m
             y == IF key(hi, lo) < key(lo, hi) THEN hi ELSE lo
         IN  [img EXCEPT !.width = max_width, !.height = IF y < 1 THEN 1 ELSE y]

\* Python truthiness of an Optional[int]
truthy(o) == o # None /\ Get(o) # 0

\* ------------------------------------------------------------ the state

VARIABLES
    mode,                \* who drives: "gui" the window, "api" / "image" a direct caller
                         \* of the service, "models" a user of the models alone; before
                         \* that "main" / "window" (the application starting) or
                         \* "library" (the service being built), and "exited" / "raised"
    installed,           \* the machine: how "ffmpeg -version" ends, the bundled files
    \* ConversionService
    ffmpeg_path,         \* Optional: what _find_ffmpeg returned
    \* MainViewModel
    current_file,        \* Optional FileInfo
    conversion_options,  \* Optional ConversionOptions
    conversion_worker,   \* Optional worker id: the ConversionWorker the view model holds
    running,             \* ids of the worker threads whose run() has not ended
    shared,              \* the worker's options are the object conversion_options names
    pending,             \* conversion_finished signals of workers, queued for the slot
    finished,            \* how many conversion_finished signals the view model has emitted
    n_started,           \* workers created (gui), convert_file calls made (api)
    \* ConversionWorker fields / convert_file arguments
    w_file_info, w_options, w_output_path, w_callback,
    \* the conversion in progress
    pc,                  \* the statement the conversion stands at
    loc,                 \* its local variables
    exc,                 \* Optional: the exception being handled
    result,              \* Optional BOOLEAN: what convert_file returned
    progress,            \* the values passed to progress_callback in this conversion
    engine_calls,        \* the ffmpeg.run invocations of this conversion, in order
    probe_calls,         \* runs of the encoder listing since the service was built
    fs,                  \* the files at output_path, output_path.tmp, output_path.check
    hist                 \* what the environment produced in this conversion (history)

vm_vars == <<current_file, conversion_options, conversion_worker, finished>>
w_vars == <<w_file_info, w_output_path, w_callback>>
conv_vars == <<pc, loc, exc, result, progress, engine_calls, probe_calls, fs, hist>>
host_vars == <<mode, installed, ffmpeg_path>>
vars == <<host_vars, vm_vars, running, shared, pending, n_started, w_vars, w_options, conv_vars>>

\* ------------------------------------------------------------ the inputs

Paths == { [parent |-> "dir", stem |-> "photo", suffix |-> <<".", "b", "m", "p">>],
           [parent |-> "dir", stem |-> "song", suffix |-> <<".", "W", "A", "V">>],
           [parent |-> "dir", stem |-> "clip", suffix |-> <<".", "m", "o", "v">>],
           [parent |-> "dir", stem |-> "notes", suffix |-> <<".", "x", "y", "z">>] }

\* the files of the options panel: a second image besides
PanelPaths ==
    Paths \cup {[parent |-> "dir", stem |-> "scan", suffix |-> <<".", "g", "i", "f">>]}

\* the size the stat of a source file gives where nothing depends on it
SourceStat == Some(4096)

\* the upper-case letter of each lower-case one
upper_of ==
    [c \in {ascii_lowercase[k] : k \in DOMAIN ascii_lowercase} |->
        ascii_uppercase[CHOOSE k \in DOMAIN ascii_lowercase : ascii_lowercase[k] = c]]

\* a suffix with the letters at the places in "at" in upper case
cased(suffix, at) ==
    [i \in DOMAIN suffix |->
        IF i \in at /\ suffix[i] \in DOMAIN upper_of THEN upper_of[suffix[i]] ELSE suffix[i]]

\* suffixes no extension set holds: none at all, unknown ones, near misses
OtherSuffixes ==
    { <<>>, <<".">>, <<".", "x", "y", "z">>, <<".", "T", "X", "T">>, <<".", "p", "n">>,
      <<".", "p", "n", "g", "s">>, <<".", "m", "p">>, <<".", "3", "g", "p">> }

\* every known extension in lower case, in upper case and in two mixed cases
ModelSuffixes ==
    LET known == image_extensions \cup audio_extensions \cup video_extensions IN
    OtherSuffixes \cup
    { cased(e, at) : e \in known, at \in {{}, 1..5, {2}, {3, 4}} }

ModelPaths == { [stem |-> "file", suffix |-> e] : e \in ModelSuffixes }

\* what the stat of the path comes to: a size, or None when it raises OSError
Stats == {None, Some(0), Some(4096)}

FileTypes == {"image", "audio", "video", "unsupported"}

OutputPaths == {"out"}

ImageFormats == {"png", "jpg"}
AudioQualities == {"128", "192", "256", "320"}
VideoQualities == {"480p", "720p", "1080p", "original"}

\* arguments of update_image_resize and update_image_size_limit
ResizeArgs == { [enabled |-> FALSE, max_width |-> None, max_height |-> None],
                [enabled |-> TRUE, max_width |-> Some(100), max_height |-> Some(100)] }
SizeLimitArgs == { [enabled |-> FALSE, max_size_kb |-> None],
                   [enabled |-> TRUE, max_size_kb |-> Some(1)],
                   [enabled |-> TRUE, max_size_kb |-> Some(2)] }

\* what the spin boxes of the view hold (range 1 to 10000), and the arguments the view
\* passes from them: the values when the check box is ticked, None when it is not
SpinBoxValues == {1, 500, 10000}
ViewResizeArgs ==
    { [enabled |-> FALSE, max_width |-> None, max_height |-> None] } \cup
    { [enabled |-> TRUE, max_width |-> Some(w), max_height |-> Some(h)] :
          w \in SpinBoxValues \ {500}, h \in SpinBoxValues \ {500} }
ViewSizeLimitArgs ==
    { [enabled |-> FALSE, max_size_kb |-> None] } \cup
    { [enabled |-> TRUE, max_size_kb |-> Some(k)] : k \in SpinBoxValues }

\* what Image.open finds in the source file
Images == { [width |-> 400, height |-> 200, mode |-> "RGBA"] }

\* byte sizes an encode can come to (never 0)
Sizes == {1000, 1024, 1025}
\* where no budget is in force a size is compared with nothing: one stands for all
UnmeasuredSizes == {1025}

ImageOptionValues ==
    { [output_format |-> f, resize_enabled |-> r.enabled, max_width |-> r.max_width,
       max_height |-> r.max_height, size_limit_enabled |-> l.enabled,
       max_size_kb |-> l.max_size_kb] :
      f \in ImageFormats, r \in ResizeArgs, l \in SizeLimitArgs }
AudioOptionValues == { [quality |-> q] : q \in AudioQualities }
VideoOptionValues == { [quality |-> q, fast_mode |-> m] : q \in VideoQualities, m \in BOOLEAN }

\* the options a direct caller of convert_file passes in mode "api"
ApiOptions ==
    { ConversionOptions("image", Some(o), None, None) :
          o \in {v \in ImageOptionValues : ~v.size_limit_enabled} }
    \cup { ConversionOptions("audio", None, Some(o), None) : o \in AudioOptionValues }
    \cup { ConversionOptions("video", None, None, Some(o)) : o \in VideoOptionValues }
    \cup { ConversionOptions("unsupported", None, None, None) }

\* the machine of the scenarios that begin with the service built
OnPath == [ffmpeg |-> "ok", exists |-> {}]

NoFiles == [dest |-> None, tmp |-> None, check |-> None]

NoLocals == [img |-> None, format_name |-> "", current_size |-> 0, max_size_bytes |-> 0,
             si |-> 0, li |-> 0, resized |-> None, file_size |-> 0,
             hw_accel |-> None, duration |-> 0, elapsed |-> None, returncode |-> None]

\* tried: the attempts of the search, in order; accepted: the attempt moved to the
\* destination; encoded: what the save of the attempt under way came to;
\* fit_lost: an attempt whose encode was within the budget raised before it was moved
\* into place; fit_skipped: the search went past an attempt whose encode was within
\* the budget; min_size: what the minimum level came to at the image's own dimensions;
\* default_size: what the default render came to; wrote: this conversion wrote the
\* destination in full; error: the exception the conversion printed last; probe: what
\* the encoder listing of this conversion came to; stat: what the stat of the path the
\* latest FileInfo was built from came to, where the scenario looks at it; forced:
\* the level of the forced save, once it was called

NoHist == [tried |-> <<>>, accepted |-> None, encoded |-> None, fit_lost |-> FALSE,
           fit_skipped |-> FALSE, min_size |-> None, default_size |-> None,
           wrote |-> FALSE, error |-> None, probe |-> None, stat |-> None,
           forced |-> None]

InitCommon ==
    /\ current_file = None
    /\ conversion_options = Some(ConversionOptions("unsupported", None, None, None))
    /\ conversion_worker = None
    /\ running = {}
    /\ shared = FALSE
    /\ pending = <<>>
    /\ finished = 0
    /\ n_started = 0
    /\ w_file_info = None
    /\ w_options = None
    /\ w_output_path = ""
    /\ w_callback = FALSE
    /\ pc = "idle"
    /\ loc = NoLocals
    /\ exc = None
    /\ result = None
    /\ progress = <<>>
    /\ engine_calls = <<>>
    /\ probe_calls = 0
    /\ hist = NoHist

\* the engine is on the PATH and the service was built with it
ServiceBuilt == installed = OnPath /\ ffmpeg_path = Some("ffmpeg")

InitGui == mode = "gui" /\ ServiceBuilt /\ InitCommon /\ fs = NoFiles
InitApi == mode = "api" /\ ServiceBuilt /\ InitCommon /\ fs = NoFiles
\* a destination left by an earlier run may be there
InitImage ==
    /\ mode = "image"
    /\ ServiceBuilt
    /\ InitCommon
    /\ \E d \in {None, Some(1025)} : fs = [NoFiles EXCEPT !.dest = d]

\* ------------------------------------- viewmodels/main_viewmodel.py: MainViewModel
\* (the signals that only the view listens to - status_message, file_loaded,
\* file_cleared, conversion_options_changed, conversion_started - are left out: a
\* branch that does nothing but emit one of them changes no variable)

\* an assignment to a field of the options object: every holder of the object sees it
assign_options(options) ==
    /\ conversion_options' = Some(options)
    /\ w_options' = IF shared THEN Some(options) ELSE w_options

load_file_keep(file_path, stat) ==
    /\ mode = "gui"
    /\ LET file_info == FileInfo(file_path, stat) IN
       IF ~file_info.is_valid
       THEN UNCHANGED <<current_file, conversion_options, shared>>
       ELSE /\ current_file' = Some(file_info)
            /\ IF conversion_options # None
                  /\ Get(conversion_options).file_type = file_info.file_type
               THEN UNCHANGED <<conversion_options, shared>>
               ELSE /\ conversion_options' =
                          Some(ConversionOptions(file_info.file_type, None, None, None))
                    /\ shared' = FALSE
    /\ UNCHANGED <<host_vars, conversion_worker, finished, running, pending, n_started,
                   w_vars, w_options, conv_vars>>

load_file(file_path, stat) ==
    /\ mode = "gui"
    /\ LET file_info == FileInfo(file_path, stat) IN
       IF ~file_info.is_valid
       THEN UNCHANGED <<current_file, conversion_options, shared>>
       ELSE /\ current_file' = Some(file_info)
            /\ conversion_options' =
                   Some(ConversionOptions(file_info.file_type, None, None, None))
            /\ shared' = FALSE
    /\ UNCHANGED <<host_vars, conversion_worker, finished, running, pending, n_started,
                   w_vars, w_options, conv_vars>>

clear_file ==
    /\ mode = "gui"
    /\ current_file' = None
    /\ conversion_options' = None
    /\ shared' = FALSE
    /\ UNCHANGED <<host_vars, conversion_worker, finished, running, pending, n_started,
                   w_vars, w_options, conv_vars>>

\* the guard "self.conversion_options and self.conversion_options.<kind>_options"
has_options(kind) ==
    /\ conversion_options # None
    /\ CASE kind = "image" -> Get(conversion_options).image_options # None
         [] kind = "audio" -> Get(conversion_options).audio_options # None
         [] OTHER -> Get(conversion_options).video_options # None

update_unchanged ==
    UNCHANGED <<host_vars, current_file, conversion_worker, finished, running,
                shared, pending, n_started, w_vars, conv_vars>>

update_image_format(format_value) ==
    /\ mode = "gui"
    /\ has_options("image")
    /\ assign_options([Get(conversion_options) EXCEPT
           !.image_options = Some([Get(@) EXCEPT !.output_format = format_value])])
    /\ update_unchanged

update_image_resize_flag(enabled, max_width, max_height) ==
    /\ mode = "gui"
    /\ has_options("image")
    /\ assign_options([Get(conversion_options) EXCEPT
           !.image_options = Some([Get(@) EXCEPT !.resize_enabled = enabled])])
    /\ update_unchanged

update_image_resize(enabled, max_width, max_height) ==
    /\ mode = "gui"
    /\ has_options("image")
    /\ assign_options([Get(conversion_options) EXCEPT
           !.image_options = Some(
               IF enabled
               THEN [Get(@) EXCEPT !.resize_enabled = enabled,
                                   !.max_width = max_width, !.max_height = max_height]
               ELSE [Get(@) EXCEPT !.resize_enabled = enabled])])
    /\ update_unchanged

update_image_size_limit(enabled, max_size_kb) ==
    /\ mode = "gui"
    /\ has_options("image")
    /\ assign_options([Get(conversion_options) EXCEPT
           !.image_options = Some(
               IF enabled
               THEN [Get(@) EXCEPT !.size_limit_enabled = enabled,
                                   !.max_size_kb = max_size_kb]
               ELSE [Get(@) EXCEPT !.size_limit_enabled = enabled])])
    /\ update_unchanged

update_audio_quality(quality_value) ==
    /\ mode = "gui"
    /\ has_options("audio")
    /\ assign_options([Get(conversion_options) EXCEPT
           !.audio_options = Some([Get(@) EXCEPT !.quality = quality_value])])
    /\ update_unchanged

update_video_quality(quality_value) ==
    /\ mode = "gui"
    /\ has_options("video")
    /\ assign_options([Get(conversion_options) EXCEPT
           !.video_options = Some([Get(@) EXCEPT !.quality = quality_value])])
    /\ update_unchanged

update_video_fast_mode(fast_mode) ==
    /\ mode = "gui"
    /\ has_options("video")
    /\ assign_options([Get(conversion_options) EXCEPT
           !.video_options = Some([Get(@) EXCEPT !.fast_mode = fast_mode])])
    /\ update_unchanged

can_convert ==
    /\ current_file # None
    /\ conversion_options # None
    /\ is_valid(Get(conversion_options))

\* "self.conversion_worker and self.conversion_worker.isRunning()"
worker_isRunning_unguarded == FALSE
worker_isRunning == conversion_worker # None /\ Get(conversion_worker) \in running

\* a conversion begins: fresh locals, nothing raised, nothing returned yet
begin_conversion ==
    /\ pc' = "convert_file"
    /\ loc' = NoLocals
    /\ exc' = None
    /\ result' = None
    /\ progress' = <<>>
    /\ engine_calls' = <<>>
    /\ hist' = NoHist
    /\ UNCHANGED <<probe_calls, fs>>

start_conversion(output_path) ==
    /\ mode = "gui"
    /\ IF ~can_convert
       THEN UNCHANGED <<conversion_worker, running, shared, n_started, w_vars,
                       w_options, conv_vars>>
       ELSE IF worker_isRunning
       THEN UNCHANGED <<conversion_worker, running, shared, n_started, w_vars,
                       w_options, conv_vars>>
       ELSE /\ n_started < MaxStarts
            /\ n_started' = n_started + 1
            /\ conversion_worker' = Some(n_started + 1)
            /\ w_file_info' = current_file
            /\ w_options' = conversion_options
            /\ shared' = TRUE
            /\ w_output_path' = output_path
            /\ w_callback' = TRUE
            /\ running' = running \cup {n_started + 1}
            /\ begin_conversion
    /\ UNCHANGED <<host_vars, current_file, conversion_options, finished, pending>>

\* the slot of the worker's conversion_finished signal, run by the event loop
on_conversion_finished ==
    /\ mode = "gui"
    /\ pending # <<>>
    /\ finished' = finished + 1
    /\ pending' = Tail(pending)
    /\ UNCHANGED <<host_vars, current_file, conversion_options, conversion_worker, running,
                   shared, n_started, w_vars, w_options, conv_vars>>

\* the characters of a suffix in a row, as str does
RECURSIVE join(_)
join(chars) == IF chars = <<>> THEN "" ELSE Head(chars) \o join(Tail(chars))

get_output_filename_png ==
    IF current_file = None THEN ""
    ELSE Get(current_file).file_path.parent \o "/"
             \o Get(current_file).file_path.stem \o "_converted." \o "png"

\* get_output_filename(): "" without a file; else the source's directory, its stem,
\* "_converted." and the extension of what the file is converted to
get_output_filename ==
    IF current_file = None THEN ""
    ELSE LET file == Get(current_file)
             base_name == file.file_path.stem
             input_dir == file.file_path.parent
             extension ==
                 CASE file.file_type = "image" ->
                          IF /\ conversion_options # None
                             /\ Get(conversion_options).image_options # None
                          THEN Get(Get(conversion_options).image_options).output_format
                          ELSE "png"
                   [] file.file_type = "audio" -> "mp3"
                   [] file.file_type = "video" -> "mp4"
                   [] OTHER -> join(Tail(lower(file.file_path.suffix)))
         IN input_dir \o "/" \o base_name \o "_converted." \o extension

\* views/main_window.py, _on_convert_clicked with the default location kept:
\* start_conversion(get_output_filename())
on_convert_clicked == start_conversion(get_output_filename)

\* ---------------------------------- viewmodels/main_viewmodel.py: ConversionWorker

worker_emit_on_success ==
    /\ mode = "gui"
    /\ pc = "return"
    /\ pending' = IF result = Some(TRUE)
                  THEN Append(pending, [success |-> TRUE, message |-> w_output_path])
                  ELSE pending
    /\ pc' = "exit"
    /\ loc' = NoLocals
    /\ result' = None
    /\ progress' = <<>>
    /\ engine_calls' = <<>>
    /\ hist' = NoHist
    /\ UNCHANGED <<host_vars, vm_vars, running, shared, n_started, w_vars, w_options,
                   exc, probe_calls, fs>>

\* run(), after convert_file returned: conversion_finished.emit(success, output_path);
\* what the call of convert_file held is gone
worker_emit ==
    /\ mode = "gui"
    /\ pc = "return"
    /\ pending' = Append(pending, [success |-> Get(result), message |-> w_output_path])
    /\ pc' = "exit"
    /\ loc' = NoLocals
    /\ result' = None
    /\ progress' = <<>>
    /\ engine_calls' = <<>>
    /\ hist' = NoHist
    /\ UNCHANGED <<host_vars, vm_vars, running, shared, n_started, w_vars, w_options,
                   exc, probe_calls, fs>>

\* run() ends and the thread with it: isRunning() is false from here on, and nothing
\* reads the worker's fields again
worker_exit ==
    /\ mode = "gui"
    /\ pc = "exit"
    /\ running' = running \ conversion_worker
    /\ pc' = "idle"
    /\ UNCHANGED <<loc, result, progress, engine_calls, hist>>
    /\ w_file_info' = None
    /\ w_options' = None
    /\ w_output_path' = ""
    /\ w_callback' = FALSE
    /\ shared' = FALSE
    /\ UNCHANGED <<host_vars, vm_vars, pending, n_started, exc, probe_calls, fs>>

\* ------------------------------------------------ a direct call of convert_file

api_call(file_info, options, output_path, progress_callback) ==
    /\ mode = "api"
    /\ pc = "idle"
    /\ n_started < MaxStarts
    /\ n_started' = n_started + 1
    /\ w_file_info' = Some(file_info)
    /\ w_options' = options
    /\ w_output_path' = output_path
    /\ w_callback' = progress_callback
    /\ begin_conversion
    /\ UNCHANGED <<host_vars, vm_vars, running, shared, pending>>

\* one call of convert_file on an image
image_call(options, output_path, progress_callback) ==
    /\ mode = "image"
    /\ pc = "idle"
    /\ result = None
    /\ n_started' = n_started + 1
    /\ w_file_info' = Some(FileInfo([stem |-> "photo", suffix |-> <<".", "b", "m", "p">>],
                                 SourceStat))
    /\ w_options' = Some(options)
    /\ w_output_path' = output_path
    /\ w_callback' = progress_callback
    /\ begin_conversion
    /\ UNCHANGED <<host_vars, vm_vars, running, shared, pending>>

api_return ==
    /\ mode \in {"api", "image"}
    /\ pc = "return"
    /\ pc' = "idle"
    /\ UNCHANGED <<host_vars, vm_vars, running, shared, pending, n_started, w_vars, w_options,
                   loc, exc, result, progress, engine_calls, probe_calls, fs, hist>>

\* ------------------------------- main.py and ConversionService.__init__: startup

\* the bundled locations, in the order both lookups try them
possible_paths == <<"ffmpeg.exe", "bin/ffmpeg.exe", "resources/ffmpeg.exe">>

\* a machine: how subprocess.run(['ffmpeg', '-version'], check=True) ends on it, and
\* which of the bundled locations exist
Machines ==
    { [ffmpeg |-> r, exists |-> e] :
          r \in {"ok", "FileNotFoundError", "CalledProcessError"},
          e \in SUBSET {possible_paths[i] : i \in DOMAIN possible_paths} }

\* check_ffmpeg(): True, or (after the message box) False
check_ffmpeg(machine) ==
    IF machine.ffmpeg = "ok" THEN TRUE
    ELSE \E i \in DOMAIN possible_paths : possible_paths[i] \in machine.exists

find_ffmpeg_on_path(machine) == Some("ffmpeg")

\* _find_ffmpeg(): Some(path), or None for "raise RuntimeError"
find_ffmpeg(machine) ==
    IF machine.ffmpeg = "ok" THEN Some("ffmpeg")
    ELSE LET found == {i \in DOMAIN possible_paths : possible_paths[i] \in machine.exists}
         IN  IF found = {} THEN None
             ELSE Some(possible_paths[CHOOSE i \in found : \A j \in found : i <= j])

startup_unchanged ==
    UNCHANGED <<installed, vm_vars, running, shared, pending, n_started, w_vars,
                w_options, conv_vars>>

\* main(): "if not check_ffmpeg(): sys.exit(1)"
main_check_ffmpeg ==
    /\ mode = "main"
    /\ \/ check_ffmpeg(installed) /\ mode' = "window"
       \/ ~check_ffmpeg(installed) /\ mode' = "exited"
    /\ UNCHANGED ffmpeg_path
    /\ startup_unchanged

\* main(): MainWindow() builds the view model, which builds the service; an exception
\* ends the application
MainWindow_init ==
    /\ mode = "window"
    /\ LET path == find_ffmpeg(installed) IN
       IF path = None THEN mode' = "exited" /\ UNCHANGED ffmpeg_path
       ELSE mode' = "gui" /\ ffmpeg_path' = path
    /\ startup_unchanged

\* ConversionService(), built by a caller of its own
ConversionService_init ==
    /\ mode = "library"
    /\ LET path == find_ffmpeg(installed) IN
       \/ path = None /\ mode' = "raised" /\ UNCHANGED ffmpeg_path
       \/ path # None /\ mode' = "api" /\ ffmpeg_path' = path
    /\ startup_unchanged

\* ------------------------------------------------- the models on their own

models_unchanged ==
    UNCHANGED <<host_vars, vm_vars, running, shared, pending, n_started, w_output_path,
                w_callback, pc, loc, exc, progress, engine_calls, probe_calls, fs>>

\* FileInfo(file_path): the record is built whatever the stat of the path comes to
new_FileInfo(file_path, stat) ==
    /\ mode = "models"
    /\ w_file_info' = Some(FileInfo(file_path, stat))
    /\ hist' = [hist EXCEPT !.stat = Some([st_size |-> stat])]
    /\ UNCHANGED <<w_options, result>>
    /\ models_unchanged

\* ConversionOptions(file_type, ...), then is_valid() of it
new_ConversionOptions(file_type, image_options, audio_options, video_options) ==
    /\ mode = "models"
    /\ LET options == ConversionOptions(file_type, image_options, audio_options,
                                        video_options)
       IN  /\ w_options' = Some(options)
           /\ result' = Some(is_valid(options))
    /\ UNCHANGED <<w_file_info, hist>>
    /\ models_unchanged

\* options.<kind>_options = None: a field of the dataclass is assigned; is_valid() again
clear_variant(kind) ==
    /\ mode = "models"
    /\ w_options # None
    /\ LET options ==
               CASE kind = "image" -> [Get(w_options) EXCEPT !.image_options = None]
                 [] kind = "audio" -> [Get(w_options) EXCEPT !.audio_options = None]
                 [] OTHER -> [Get(w_options) EXCEPT !.video_options = None]
       IN  /\ w_options' = Some(options)
           /\ result' = Some(is_valid(options))
    /\ UNCHANGED <<w_file_info, hist>>
    /\ models_unchanged

\* -------------------------- services/conversion_service.py: ConversionService

\* a step of the conversion touches nothing of the view model or of the worker's fields
service_step ==
    UNCHANGED <<host_vars, vm_vars, running, shared, pending, n_started, w_vars, w_options>>

\* "raise": control goes to the except clause that encloses the statement
raise(handler, e) ==
    /\ exc' = Some(e)
    /\ pc' = handler

\* "return <bool>" of convert_file, straight or through the _convert_* method
return(success) ==
    /\ result' = Some(success)
    /\ pc' = "return"

swallow_reraise ==
    /\ hist' = [hist EXCEPT !.error = exc]
    /\ exc' = exc
    /\ result' = result
    /\ pc' = "return"

\* an except clause that prints the exception and returns False
swallow ==
    /\ hist' = [hist EXCEPT !.error = exc]
    /\ exc' = None
    /\ return(FALSE)

\* the engine's effect on the destination: written whole, or left as it was / cut short
engine_files(ok) ==
    IF ok THEN { [fs EXCEPT !.dest = Some(s)] : s \in UnmeasuredSizes }
    ELSE { fs, [fs EXCEPT !.dest = Some(0)] }

\* try: dispatch on file_info.file_type
convert_file ==
    /\ pc = "convert_file"
    /\ LET file_type == Get(w_file_info).file_type IN
       IF file_type \notin {"image", "audio", "video"}
       THEN return(FALSE) /\ UNCHANGED exc
       ELSE IF w_options = None
       THEN raise("convert_file_except", "AttributeError") /\ UNCHANGED result
       ELSE /\ pc' = CASE file_type = "image" -> "convert_image"
                       [] file_type = "audio" -> "convert_audio"
                       [] OTHER -> "convert_video"
            /\ UNCHANGED <<exc, result>>
    /\ UNCHANGED <<loc, progress, engine_calls, probe_calls, fs, hist>>
    /\ service_step

\* except Exception as e: print; return False
convert_file_except ==
    /\ pc = "convert_file_except"
    /\ swallow
    /\ UNCHANGED <<loc, progress, engine_calls, probe_calls, fs>>
    /\ service_step

\* _convert_audio up to the call of ffmpeg.run
convert_audio ==
    /\ pc = "convert_audio"
    /\ LET options == Get(w_options).audio_options IN
       IF options = None
       THEN /\ raise("convert_audio_except", "AttributeError")
            /\ UNCHANGED engine_calls
       ELSE /\ engine_calls' = Append(engine_calls, audio_output(Get(options).quality))
            /\ pc' = "audio_run"
            /\ UNCHANGED exc
    /\ UNCHANGED <<loc, result, progress, probe_calls, fs, hist>>
    /\ service_step

\* ffmpeg.run returns or raises; return True
audio_run ==
    /\ pc = "audio_run"
    /\ \E ok \in BOOLEAN : \E files \in engine_files(ok) :
        /\ fs' = files
        /\ IF ok
           THEN /\ return(TRUE)
                /\ hist' = [hist EXCEPT !.wrote = TRUE]
                /\ UNCHANGED exc
           ELSE /\ raise("convert_audio_except", "ffmpeg.Error")
                /\ UNCHANGED <<result, hist>>
    /\ UNCHANGED <<loc, progress, engine_calls, probe_calls>>
    /\ service_step

\* except Exception as e: print; return False
convert_audio_except ==
    /\ pc = "convert_audio_except"
    /\ swallow
    /\ UNCHANGED <<loc, progress, engine_calls, probe_calls, fs>>
    /\ service_step

\* what "ffmpeg -encoders" can list: any of the hardware encoders under direct calls;
\* none or all of them on the machine of mode "gui"
encoder_lists == IF mode = "gui" THEN {{}, HW_IDS} ELSE SUBSET HW_IDS

\* how subprocess.run of the listing ends: it raises (no binary at ffmpeg_path, or
\* TimeoutExpired after 10 s), or it returns with the engine's exit code and its
\* output; an engine that exits with an error has listed no encoder
probe_outcomes ==
    { [raised |-> TRUE, returncode |-> 0, stdout |-> {}],
      [raised |-> FALSE, returncode |-> 1, stdout |-> {}] }
    \cup { [raised |-> FALSE, returncode |-> 0, stdout |-> s] : s \in encoder_lists }

\* _convert_video up to the call of ffmpeg.run: the probe, the settings, the output
convert_video ==
    /\ pc = "convert_video"
    /\ LET options == Get(w_options).video_options IN
       IF options = None
       THEN /\ raise("convert_video_except", "AttributeError")
            /\ UNCHANGED <<loc, engine_calls, probe_calls, hist>>
       ELSE \E probe \in probe_outcomes :
            LET hw_accel == detect_hardware_acceleration(probe.stdout, probe.raised) IN
            /\ probe_calls' = probe_calls + 1
            /\ hist' = [hist EXCEPT !.probe = Some(probe)]
            /\ loc' = [loc EXCEPT !.hw_accel = Some(hw_accel)]
            /\ engine_calls' = Append(engine_calls,
                   video_output(get_optimized_video_settings(
                       Get(options).quality, Get(options).fast_mode, hw_accel)))
            /\ pc' = "video_run"
            /\ UNCHANGED exc
    /\ UNCHANGED <<result, progress, fs>>
    /\ service_step

\* the inner try: ffmpeg.run, progress_callback(100); on an exception the fallback
\* begins; return True
video_run ==
    /\ pc = "video_run"
    /\ \E ok \in BOOLEAN : \E files \in engine_files(ok) :
        /\ fs' = files
        /\ IF ok
           THEN /\ progress' = IF w_callback THEN Append(progress, 100) ELSE progress
                /\ return(TRUE)
                /\ hist' = [hist EXCEPT !.wrote = TRUE]
                /\ UNCHANGED engine_calls
           ELSE /\ hist' = [hist EXCEPT !.error = Some("ffmpeg.Error")]
                /\ engine_calls' = Append(engine_calls, fallback_output)
                /\ pc' = "fallback_run"
                /\ UNCHANGED <<result, progress>>
    /\ UNCHANGED <<loc, exc, probe_calls>>
    /\ service_step

\* _fallback_video_conversion: ffmpeg.run returns or raises; then return True
fallback_run ==
    /\ pc = "fallback_run"
    /\ \E ok \in BOOLEAN : \E files \in engine_files(ok) :
        /\ fs' = files
        /\ IF ok
           THEN /\ return(TRUE)
                /\ hist' = [hist EXCEPT !.wrote = TRUE]
                /\ UNCHANGED exc
           ELSE /\ raise("fallback_except", "ffmpeg.Error (fallback)")
                /\ UNCHANGED <<result, hist>>
    /\ UNCHANGED <<loc, progress, engine_calls, probe_calls>>
    /\ service_step

\* except Exception as e: print; raise e
fallback_except ==
    /\ pc = "fallback_except"
    /\ pc' = "convert_video_except"
    /\ UNCHANGED <<loc, exc, result, progress, engine_calls, probe_calls, fs, hist>>
    /\ service_step

\* except Exception as e: print; return False
convert_video_except ==
    /\ pc = "convert_video_except"
    /\ swallow
    /\ UNCHANGED <<loc, progress, engine_calls, probe_calls, fs>>
    /\ service_step

\* ---------------------------------------------------------- the image path

\* img.save(path, ...): the file it leaves and whether it raised.  A mode with alpha
\* cannot be written as JPEG; a save that raises leaves the path as it was or cut short;
\* sizes: what the encode can come to
save_outcomes(file, img, format_name, sizes) ==
    (IF format_name = "JPEG" /\ img.mode = "RGBA" THEN {}
     ELSE { [ok |-> TRUE, file |-> Some(s)] : s \in sizes })
    \cup { [ok |-> FALSE, file |-> f] : f \in {file, Some(0)} }

\* the same image under the same settings comes to the same size again
same_sizes(known) == IF known = None THEN Sizes ELSE known

image_options == Get(Get(w_options).image_options)

\* with Image.open(...) as img: convert('RGB') for JPEG, then thumbnail
convert_image ==
    /\ pc = "convert_image"
    /\ \E source \in Images, raised \in BOOLEAN :
        IF raised
        THEN raise("convert_image_except", "UnidentifiedImageError") /\ UNCHANGED loc
        ELSE IF Get(w_options).image_options = None
        THEN raise("convert_image_except", "AttributeError") /\ UNCHANGED loc
        ELSE LET converted ==
                     IF image_options.output_format = "jpg"
                        /\ source.mode \in {"RGBA", "LA", "P"}
                     THEN [source EXCEPT !.mode = "RGB"] ELSE source
                 img ==
                     IF image_options.resize_enabled /\ truthy(image_options.max_width)
                        /\ truthy(image_options.max_height)
                     THEN thumbnail(converted, Get(image_options.max_width),
                                    Get(image_options.max_height))
                     ELSE converted
             IN  /\ loc' = [loc EXCEPT !.img = Some(img)]
                 /\ pc' = "image_save"
                 /\ UNCHANGED exc
    /\ UNCHANGED <<result, progress, engine_calls, probe_calls, fs, hist>>
    /\ service_step

\* the size limit asked for: render to '.check'; else save to the destination, return True
image_save ==
    /\ pc = "image_save"
    /\ LET format_name == format_name_of(image_options.output_format)
           img == Get(loc.img)
       IN  IF image_options.size_limit_enabled /\ truthy(image_options.max_size_kb)
           THEN \E out \in save_outcomes(fs.check, img, format_name, Sizes) :
                /\ fs' = [fs EXCEPT !.check = out.file]
                /\ loc' = [loc EXCEPT !.format_name = format_name]
                /\ hist' = [hist EXCEPT !.default_size = IF out.ok THEN out.file ELSE @]
                /\ IF out.ok THEN pc' = "image_check_size" /\ UNCHANGED exc
                   ELSE raise("convert_image_except", "OSError")
                /\ UNCHANGED result
           ELSE \E out \in save_outcomes(fs.dest, img, format_name, UnmeasuredSizes) :
                /\ fs' = [fs EXCEPT !.dest = out.file]
                /\ loc' = [loc EXCEPT !.format_name = format_name]
                /\ IF out.ok
                   THEN /\ return(TRUE)
                        /\ hist' = [hist EXCEPT !.wrote = TRUE]
                        /\ UNCHANGED exc
                   ELSE /\ raise("convert_image_except", "OSError")
                        /\ UNCHANGED <<result, hist>>
    /\ UNCHANGED <<progress, engine_calls, probe_calls>>
    /\ service_step

\* current_size = os.path.getsize(temp_path)
image_check_size ==
    /\ pc = "image_check_size"
    /\ \E raised \in BOOLEAN :
        IF raised THEN raise("convert_image_except", "OSError") /\ UNCHANGED loc
        ELSE /\ loc' = [loc EXCEPT !.current_size = Get(fs.check)]
             /\ pc' = "image_check_remove"
             /\ UNCHANGED exc
    /\ UNCHANGED <<result, progress, engine_calls, probe_calls, fs, hist>>
    /\ service_step

\* os.remove(temp_path)
image_check_remove ==
    /\ pc = "image_check_remove"
    /\ \E raised \in BOOLEAN :
        IF raised THEN raise("convert_image_except", "OSError") /\ UNCHANGED fs
        ELSE /\ fs' = [fs EXCEPT !.check = None]
             /\ pc' = "image_check_compare"
             /\ UNCHANGED exc
    /\ UNCHANGED <<loc, result, progress, engine_calls, probe_calls, hist>>
    /\ service_step

image_check_compare_below ==
    /\ pc = "image_check_compare"
    /\ IF image_options.max_size_kb = None
       THEN /\ raise("convert_image_except", "TypeError")
            /\ UNCHANGED <<loc, result, fs, hist>>
       ELSE LET max_size_bytes == Get(image_options.max_size_kb) * 1024 IN
            /\ loc' = [loc EXCEPT !.max_size_bytes = max_size_bytes]
            /\ IF loc.current_size < max_size_bytes
               THEN \E out \in save_outcomes(fs.dest, Get(loc.img), loc.format_name,
                                             Some(loc.current_size)) :
                    /\ fs' = [fs EXCEPT !.dest = out.file]
                    /\ IF out.ok
                       THEN /\ return(TRUE)
                            /\ hist' = [hist EXCEPT !.wrote = TRUE]
                            /\ UNCHANGED exc
                       ELSE /\ raise("convert_image_except", "OSError")
                            /\ UNCHANGED <<result, hist>>
               ELSE /\ pc' = "optimize_image_size"
                    /\ UNCHANGED <<exc, result, fs, hist>>
    /\ UNCHANGED <<progress, engine_calls, probe_calls>>
    /\ service_step

\* small enough already: save at the default settings; else _optimize_image_size
image_check_compare ==
    /\ pc = "image_check_compare"
    /\ IF image_options.max_size_kb = None
       THEN /\ raise("convert_image_except", "TypeError")
            /\ UNCHANGED <<loc, result, fs, hist>>
       ELSE LET max_size_bytes == Get(image_options.max_size_kb) * 1024 IN
            /\ loc' = [loc EXCEPT !.max_size_bytes = max_size_bytes]
            /\ IF loc.current_size <= max_size_bytes
               THEN \E out \in save_outcomes(fs.dest, Get(loc.img), loc.format_name,
                                             Some(loc.current_size)) :
                    /\ fs' = [fs EXCEPT !.dest = out.file]
                    /\ IF out.ok
                       THEN /\ return(TRUE)
                            /\ hist' = [hist EXCEPT !.wrote = TRUE]
                            /\ UNCHANGED exc
                       ELSE /\ raise("convert_image_except", "OSError")
                            /\ UNCHANGED <<result, hist>>
               ELSE /\ pc' = "optimize_image_size"
                    /\ UNCHANGED <<exc, result, fs, hist>>
    /\ UNCHANGED <<progress, engine_calls, probe_calls>>
    /\ service_step

\* except Exception as e: print; return False
convert_image_except ==
    /\ pc = "convert_image_except"
    /\ swallow
    /\ UNCHANGED <<loc, progress, engine_calls, probe_calls, fs>>
    /\ service_step

\* ---------------------------------------------------------- the size search

\* the attempt the search stands at: scale 0 is the image's own dimensions
attempt ==
    IF loc.si = 0
    THEN [scale |-> 0, level |-> optimize_levels(loc.format_name)[loc.li]]
    ELSE [scale |-> loc.si, level |-> aggressive_levels(loc.format_name)[loc.li]]

\* max_size_bytes and format_name anew from the options; the first level
optimize_image_size ==
    /\ pc = "optimize_image_size"
    /\ IF image_options.max_size_kb = None
       THEN raise("convert_image_except", "TypeError") /\ UNCHANGED loc
       ELSE /\ loc' = [loc EXCEPT !.max_size_bytes = Get(image_options.max_size_kb) * 1024,
                                  !.format_name = format_name_of(image_options.output_format),
                                  !.si = 0, !.li = 1]
            /\ pc' = "optimize_save"
            /\ UNCHANGED exc
    /\ UNCHANGED <<result, progress, engine_calls, probe_calls, fs, hist>>
    /\ service_step

\* the history when the search leaves an attempt behind
went_on ==
    [hist EXCEPT !.encoded = None,
                 !.fit_skipped = @ \/ (hist.encoded # None
                                        /\ Get(hist.encoded) <= loc.max_size_bytes)]

\* the for loop goes on: the next level, or _aggressive_resize_for_size
optimize_next ==
    /\ hist' = went_on
    /\ IF loc.li < Len(optimize_levels(loc.format_name))
       THEN /\ loc' = [loc EXCEPT !.li = @ + 1, !.file_size = 0]
            /\ pc' = "optimize_save"
       ELSE /\ loc' = [loc EXCEPT !.si = 1, !.li = 0, !.file_size = 0]
            /\ pc' = "aggressive_resize"

\* the inner for loop goes on: the next level, or the next scale
aggressive_next ==
    /\ hist' = went_on
    /\ IF loc.li < Len(aggressive_levels(loc.format_name))
       THEN /\ loc' = [loc EXCEPT !.li = @ + 1, !.file_size = 0]
            /\ pc' = "aggressive_save"
       ELSE /\ loc' = [loc EXCEPT !.si = @ + 1, !.li = 0, !.file_size = 0,
                                  !.resized = None]
            /\ pc' = "aggressive_resize"

\* img.save(temp_path, quality / compress_level, optimize=True) inside the try
search_save(img, size_pc, except_pc) ==
    \E out \in save_outcomes(fs.tmp, img, loc.format_name, Sizes) :
    /\ fs' = [fs EXCEPT !.tmp = out.file]
    /\ hist' = [hist EXCEPT
           !.tried = Append(@, attempt),
           !.encoded = IF out.ok THEN out.file ELSE None,
           !.min_size = IF out.ok /\ attempt.scale = 0
                            /\ attempt.level = minimum_level(loc.format_name)
                         THEN out.file ELSE @]
    /\ pc' = IF out.ok THEN size_pc ELSE except_pc
    /\ UNCHANGED <<loc, exc, result>>

\* file_size = os.path.getsize(temp_path) inside the try
search_size(compare_pc, except_pc) ==
    \E raised \in BOOLEAN :
    IF raised
    THEN /\ hist' = [hist EXCEPT !.fit_lost = @ \/ Get(fs.tmp) <= loc.max_size_bytes]
         /\ pc' = except_pc
         /\ UNCHANGED <<loc, exc, result, fs>>
    ELSE /\ loc' = [loc EXCEPT !.file_size = Get(fs.tmp)]
         /\ pc' = compare_pc
         /\ UNCHANGED <<exc, result, fs, hist>>

fits_below(file_size, max_size_bytes) == file_size < max_size_bytes

\* the test of every attempt: file_size <= max_size_bytes
fits(file_size, max_size_bytes) == file_size <= max_size_bytes

\* if file_size <= max_size_bytes: os.replace and return; else: os.remove, go on
search_compare(next, except_pc) ==
    \E raised \in BOOLEAN :
    IF fits(loc.file_size, loc.max_size_bytes)
    THEN IF raised
         THEN /\ hist' = [hist EXCEPT !.fit_lost = TRUE]
              /\ pc' = except_pc
              /\ UNCHANGED <<loc, exc, result, fs>>
         ELSE /\ fs' = [fs EXCEPT !.dest = fs.tmp, !.tmp = None]
              /\ hist' = [hist EXCEPT !.accepted = Some(attempt), !.wrote = TRUE,
                                      !.encoded = None]
              /\ return(TRUE)
              /\ UNCHANGED <<loc, exc>>
    ELSE IF raised
         THEN /\ pc' = except_pc
              /\ UNCHANGED <<loc, exc, result, fs, hist>>
         ELSE /\ fs' = [fs EXCEPT !.tmp = None]
              /\ next
              /\ UNCHANGED <<exc, result>>

\* except Exception: if os.path.exists(temp_path): os.remove(temp_path); go on
search_except(next) ==
    IF fs.tmp = None
    THEN next /\ UNCHANGED <<exc, result, fs>>
    ELSE \E raised \in BOOLEAN :
         IF raised
         THEN /\ raise("convert_image_except", "OSError")
              /\ UNCHANGED <<loc, result, fs, hist>>
         ELSE /\ fs' = [fs EXCEPT !.tmp = None]
              /\ next
              /\ UNCHANGED <<exc, result>>

search_step == UNCHANGED <<progress, engine_calls, probe_calls>> /\ service_step

optimize_save ==
    /\ pc = "optimize_save"
    /\ search_save(Get(loc.img), "optimize_size", "optimize_except")
    /\ search_step

optimize_size ==
    /\ pc = "optimize_size"
    /\ search_size("optimize_compare", "optimize_except")
    /\ search_step

optimize_compare ==
    /\ pc = "optimize_compare"
    /\ search_compare(optimize_next, "optimize_except")
    /\ search_step

optimize_except ==
    /\ pc = "optimize_except"
    /\ search_except(optimize_next)
    /\ search_step

\* for scale in [...]: new_size; break below 10 pixels; img.resize
aggressive_resize ==
    /\ pc = "aggressive_resize"
    /\ IF loc.si > Len(scales)
       THEN pc' = "minimum_save" /\ UNCHANGED loc
       ELSE LET size == new_size(Get(loc.img), loc.si) IN
            IF size.width < 10 \/ size.height < 10
            THEN pc' = "minimum_save" /\ UNCHANGED loc
            ELSE /\ loc' = [loc EXCEPT !.li = 1,
                       !.resized = Some([Get(loc.img) EXCEPT !.width = size.width,
                                                              !.height = size.height])]
                 /\ pc' = "aggressive_save"
    /\ UNCHANGED <<exc, result, fs, hist>>
    /\ search_step

aggressive_save ==
    /\ pc = "aggressive_save"
    /\ search_save(Get(loc.resized), "aggressive_size", "aggressive_except")
    /\ search_step

aggressive_size ==
    /\ pc = "aggressive_size"
    /\ search_size("aggressive_compare", "aggressive_except")
    /\ search_step

aggressive_compare ==
    /\ pc = "aggressive_compare"
    /\ search_compare(aggressive_next, "aggressive_except")
    /\ search_step

aggressive_except ==
    /\ pc = "aggressive_except"
    /\ search_except(aggressive_next)
    /\ search_step

\* no level fitted: img.save(output_path, quality=5 / compress_level=9); return True
minimum_save ==
    /\ pc = "minimum_save"
    /\ \E out \in save_outcomes(fs.dest, Get(loc.img), loc.format_name,
                                  same_sizes(hist.min_size)) :
        /\ fs' = [fs EXCEPT !.dest = out.file]
        /\ hist' = [hist EXCEPT !.wrote = out.ok,
                                !.forced = Some(minimum_level(loc.format_name))]
        /\ IF out.ok
           THEN return(TRUE) /\ UNCHANGED exc
           ELSE raise("convert_image_except", "OSError") /\ UNCHANGED result
    /\ UNCHANGED loc
    /\ search_step

\* ------------------------------------- _run_ffmpeg_with_progress, called directly
\* (time is counted in half seconds, the period of the loop; a reading of the clock is
\* any of Readings later than the one before; the callback does not raise)

\* what ffmpeg.probe gives as the duration of the first stream, in seconds: None when
\* the probe raises, 0 when the stream has no duration
ProbedDurations == {None, Some(0), Some(60), Some(600)}

\* readings of time.time() - start_time, in half seconds
Readings == {0, 1, 11, 12, 57, 60}

Min(a, b) == IF a < b THEN a ELSE b

\* min(int((elapsed / (duration * 0.1)) * 100), 95), or min(int((elapsed / 30) * 100), 95)
estimated_progress(elapsed, duration) ==
    IF duration > 0 THEN Min((500 * elapsed) \div duration, 95)
    ELSE Min((5 * elapsed) \div 3, 95)

run_ffmpeg_with_progress ==
    /\ mode = "progress"
    /\ pc = "idle"
    /\ n_started = 0
    /\ n_started' = 1
    /\ w_callback' = TRUE
    /\ pc' = "progress_probe"
    /\ loc' = NoLocals
    /\ UNCHANGED <<host_vars, vm_vars, running, shared, pending, w_file_info, w_options,
                   w_output_path, exc, result, progress, engine_calls, probe_calls, fs,
                   hist>>

\* the input of the stream is looked up and probed for its duration
progress_probe ==
    /\ pc = "progress_probe"
    /\ \E raised \in BOOLEAN, found \in BOOLEAN, d \in ProbedDurations :
        IF raised THEN raise("progress_except", "AttributeError") /\ UNCHANGED loc
        ELSE /\ loc' = [loc EXCEPT !.duration = IF found /\ d # None THEN Get(d) ELSE 0]
             /\ pc' = "progress_run_async"
             /\ UNCHANGED exc
    /\ UNCHANGED <<result, progress, engine_calls, probe_calls, fs, hist>>
    /\ service_step

\* process = ffmpeg.run_async(output_stream, overwrite_output=True, ...)
progress_run_async ==
    /\ pc = "progress_run_async"
    /\ \E raised \in BOOLEAN :
        IF raised
        THEN raise("progress_except", "FileNotFoundError") /\ UNCHANGED engine_calls
        ELSE /\ engine_calls' = Append(engine_calls, [via |-> "run_async"])
             /\ pc' = "progress_poll"
             /\ UNCHANGED exc
    /\ UNCHANGED <<loc, result, progress, probe_calls, fs, hist>>
    /\ service_step

\* while process.poll() is None: estimate from the time gone, call back, sleep(0.5)
progress_poll ==
    /\ pc = "progress_poll"
    /\ \E returncode \in {None, Some(0), Some(1)} :
        IF returncode = None
        THEN \E elapsed \in {e \in Readings : loc.elapsed = None \/ e > Get(loc.elapsed)} :
             /\ loc' = [loc EXCEPT !.elapsed = Some(elapsed)]
             /\ progress' = Append(progress, estimated_progress(elapsed, loc.duration))
             /\ UNCHANGED <<pc, fs>>
        ELSE /\ loc' = [loc EXCEPT !.returncode = returncode]
             /\ fs' \in engine_files(returncode = Some(0))
             /\ pc' = "progress_final"
             /\ UNCHANGED progress
    /\ UNCHANGED <<exc, result, engine_calls, probe_calls, hist>>
    /\ service_step

\* after the loop: progress_callback(100)
progress_final ==
    /\ pc = "progress_final"
    /\ progress' = Append(progress, 100)
    /\ pc' = "return"
    /\ UNCHANGED <<loc, exc, result, engine_calls, probe_calls, fs, hist>>
    /\ service_step

\* except Exception as e: print; ffmpeg.run(output_stream, overwrite_output=True,
\* quiet=True), whose ffmpeg.Error goes to the caller
progress_except ==
    /\ pc = "progress_except"
    /\ engine_calls' = Append(engine_calls, [via |-> "run"])
    /\ hist' = [hist EXCEPT !.error = exc]
    /\ \E ok \in BOOLEAN :
        /\ fs' \in engine_files(ok)
        /\ exc' = IF ok THEN None ELSE Some("ffmpeg.Error")
    /\ pc' = "return"
    /\ UNCHANGED <<loc, result, progress, probe_calls>>
    /\ service_step

\* ------------------------------------------------------ the specifications

\* the engine paths and the image path without a size limit
service_next ==
    \/ convert_file
    \/ convert_audio \/ audio_run \/ convert_audio_except
    \/ convert_video \/ video_run \/ fallback_run \/ fallback_except
    \/ convert_video_except
    \/ convert_image \/ image_save \/ convert_image_except

\* what the user picks in mode "gui"
GuiAudioQualities == {"128", "192"}
GuiVideoQualities == {"720p", "original"}

update_options ==
    \/ \E f \in ImageFormats : update_image_format(f)
    \/ \E a \in ResizeArgs : update_image_resize(a.enabled, a.max_width, a.max_height)
    \/ \E a \in {x \in SizeLimitArgs : ~x.enabled} :
           update_image_size_limit(a.enabled, a.max_size_kb)
    \/ \E q \in GuiAudioQualities : update_audio_quality(q)
    \/ \E q \in GuiVideoQualities : update_video_quality(q)
    \/ \E m \in BOOLEAN : update_video_fast_mode(m)

\* mode "gui": the application
Next ==
    \/ \E p \in Paths : load_file(p, SourceStat)
    \/ clear_file
    \/ update_options
    \/ \E p \in OutputPaths : start_conversion(p)
    \/ on_conversion_finished
    \/ worker_emit
    \/ worker_exit
    \/ service_next

Spec == InitGui /\ [][Next]_vars

\* the steps of the worker thread, from the first of convert_file to the end of run()
worker_next == service_next \/ worker_emit \/ worker_exit

\* mode "gui" with its scheduling: a worker thread that can take a step is not held
\* up for ever, as every engine call and encode returns, and the event loop comes to
\* a queued signal; nothing makes the user act. Of the option updates the format of
\* an image and the quality of a video are kept: they change the path a conversion
\* under way takes
NextLive ==
    \/ \E p \in Paths : load_file(p, SourceStat)
    \/ clear_file
    \/ \E f \in ImageFormats : update_image_format(f)
    \/ \E q \in GuiVideoQualities : update_video_quality(q)
    \/ \E p \in OutputPaths : start_conversion(p)
    \/ on_conversion_finished
    \/ worker_next

SpecLive ==
    InitGui /\ [][NextLive]_vars /\ WF_vars(worker_next) /\ WF_vars(on_conversion_finished)

\* mode "api": the service under direct calls
NextService ==
    \/ \E f \in Paths, o \in {Some(x) : x \in ApiOptions} \cup {None},
          p \in OutputPaths, cb \in BOOLEAN :
           api_call(FileInfo(f, SourceStat), o, p, cb)
    \/ api_return
    \/ convert_file_except
    \/ service_next

SpecService == InitApi /\ [][NextService]_vars

\* mode "image": one image conversion
NextImage ==
    \/ \E o \in ImageOptionValues, p \in OutputPaths, cb \in BOOLEAN :
           image_call(ConversionOptions("image", Some(o), None, None), p, cb)
    \/ api_return
    \/ convert_file
    \/ convert_image \/ image_save \/ image_check_size \/ image_check_remove
    \/ image_check_compare \/ convert_image_except
    \/ optimize_image_size \/ optimize_save \/ optimize_size \/ optimize_compare
    \/ optimize_except
    \/ aggressive_resize \/ aggressive_save \/ aggressive_size \/ aggressive_compare
    \/ aggressive_except
    \/ minimum_save

SpecImage == InitImage /\ [][NextImage]_vars

\* mode "gui", the options panel: files are loaded and cleared, the options are set
\* from the view, and a conversion is started at the default destination, whose
\* worker has not taken a step yet
NextOptions ==
    \/ \E p \in PanelPaths : load_file(p, SourceStat)
    \/ clear_file
    \/ \E f \in ImageFormats : update_image_format(f)
    \/ \E a \in ViewResizeArgs : update_image_resize(a.enabled, a.max_width, a.max_height)
    \/ \E a \in ViewSizeLimitArgs : update_image_size_limit(a.enabled, a.max_size_kb)
    \/ \E q \in GuiAudioQualities : update_audio_quality(q)
    \/ \E q \in GuiVideoQualities : update_video_quality(q)
    \/ \E m \in BOOLEAN : update_video_fast_mode(m)
    \/ on_convert_clicked

SpecOptions == InitGui /\ [][NextOptions]_vars

\* mode "models": FileInfo and ConversionOptions under any caller
InitModels == mode = "models" /\ ServiceBuilt /\ InitCommon /\ fs = NoFiles

NextModels ==
    \/ \E p \in ModelPaths, st \in Stats : new_FileInfo(p, st)
    \/ \E t \in FileTypes,
          i \in {None} \cup {Some(ImageConversionOptions(f)) : f \in ImageFormats},
          a \in {None, Some(AudioConversionOptions)},
          v \in {None, Some(VideoConversionOptions)} :
           new_ConversionOptions(t, i, a, v)
    \/ \E k \in {"image", "audio", "video"} : clear_variant(k)

SpecModels == InitModels /\ [][NextModels]_vars

\* from the start: the application from main() on, or a caller that builds the
\* service itself, on any machine; files are loaded and converted with the options
\* they get by default
InitStartup ==
    /\ mode \in {"main", "library"}
    /\ installed \in Machines
    /\ ffmpeg_path = None
    /\ InitCommon
    /\ fs = NoFiles

NextStartup ==
    \/ main_check_ffmpeg
    \/ MainWindow_init
    \/ ConversionService_init
    \/ \E p \in Paths : load_file(p, SourceStat)
    \/ \E p \in OutputPaths : start_conversion(p)
    \/ on_conversion_finished
    \/ worker_emit
    \/ worker_exit
    \/ \E f \in Paths, p \in OutputPaths :
           api_call(FileInfo(f, SourceStat),
                    Some(ConversionOptions(detect_file_type(f), None, None, None)),
                    p, TRUE)
    \/ api_return
    \/ service_next

SpecStartup == InitStartup /\ [][NextStartup]_vars

\* the three scenarios side by side
\* mode "progress": one call of _run_ffmpeg_with_progress, which no method of the
\* service calls
InitProgress == mode = "progress" /\ ServiceBuilt /\ InitCommon /\ fs = NoFiles

NextProgress ==
    \/ run_ffmpeg_with_progress
    \/ progress_probe \/ progress_run_async \/ progress_poll \/ progress_final
    \/ progress_except

SpecProgress == InitProgress /\ [][NextProgress]_vars

SpecAll == (InitGui \/ InitApi \/ InitImage) /\ [][Next \/ NextService \/ NextImage]_vars

\* ------------------------------------------------------------ the properties

file_type_of(file_info) == IF file_info = None THEN "" ELSE Get(file_info).file_type

\* C1: a conversion of a file of kind Unsupported goes from the dispatch straight to
\* "return False", whatever the options: no engine run, no image opened or encoded,
\* nothing written; and the view model never holds an unsupported file, nor does a
\* worker of it ever get one.
C1_UnsupportedNeverConverts ==
    /\ file_type_of(w_file_info) = "unsupported" =>
          /\ pc \in {"idle", "convert_file", "return"}
          /\ engine_calls = <<>>
          /\ loc.img = None
          /\ hist.tried = <<>>
          /\ ~hist.wrote
          /\ pc \in {"idle", "return"} => result = Some(FALSE)
    /\ mode = "gui" =>
          /\ file_type_of(current_file) # "unsupported"
          /\ file_type_of(w_file_info) # "unsupported"

C1_Witness ==
    /\ mode = "api"
    /\ pc = "return"
    /\ file_type_of(w_file_info) = "unsupported"
    /\ w_options # None
    /\ Get(w_options).file_type = "video"
    /\ result = Some(FALSE)

\* C2: whatever fails inside a conversion and is not recovered from (the image cannot
\* be opened or encoded, the engine run of the audio path fails, the fallback run
\* fails, an option is missing), convert_file returns False with no exception left
\* in flight, and it returns True only when the destination was written in full;
\* every worker started has emitted exactly one conversion_finished signal once its
\* conversion is over, and none before.
C2_FailuresBecomeFalse ==
    /\ pc \in {"return", "exit", "idle"} => exc = None
    /\ pc = "return" =>
          /\ result \in {Some(TRUE), Some(FALSE)}
          /\ result = Some(TRUE) <=> hist.wrote
          /\ result = Some(FALSE) => hist.error # None \/ file_type_of(w_file_info) = "unsupported"
    /\ mode = "gui" =>
          finished + Len(pending) = IF pc \in {"idle", "exit"} THEN n_started
                                    ELSE n_started - 1
    /\ mode # "gui" /\ pc = "idle" /\ n_started > 0 => result # None

C2_Witness ==
    /\ mode = "gui"
    /\ pc = "return"
    /\ Len(engine_calls) = 2
    /\ hist.error = Some("ffmpeg.Error (fallback)")
    /\ result = Some(FALSE)
    /\ finished + Len(pending) = 1
    /\ n_started = 2

\* C3: a video conversion runs the engine at most twice; the second run is there
\* exactly when the first one failed, and its plan is libx264 + aac, preset
\* ultrafast, CRF 28, no scale filter and nothing of a hardware encoder; when the
\* second run fails the conversion returns False without a third run, when it
\* succeeds the conversion returns True.
C3_VideoFallback ==
    file_type_of(w_file_info) = "video" =>
        /\ Len(engine_calls) <= 2
        /\ Len(engine_calls) = 2 =>
              /\ engine_calls[2].vcodec = "libx264"
              /\ engine_calls[2].acodec = "aac"
              /\ engine_calls[2].args = ("preset" :> "ultrafast") @@ ("crf" :> "28")
              /\ hist.error # None
        /\ pc = "return" /\ Len(engine_calls) = 1 => hist.error = None /\ result = Some(TRUE)
        /\ pc = "return" /\ Len(engine_calls) = 2 =>
              \/ result = Some(TRUE) /\ hist.wrote /\ hist.error = Some("ffmpeg.Error")
              \/ result = Some(FALSE) /\ ~hist.wrote
                     /\ hist.error = Some("ffmpeg.Error (fallback)")
        /\ pc \in {"fallback_run", "fallback_except"} => Len(engine_calls) = 2
        /\ pc = "video_run" => Len(engine_calls) = 1

C3_Witness ==
    /\ file_type_of(w_file_info) = "video"
    /\ pc = "return"
    /\ Len(engine_calls) = 2
    /\ engine_calls[1].vcodec = "h264_nvenc"
    /\ result = Some(TRUE)

\* C4: an audio conversion whose engine run fails runs the engine a second time,
\* once, before it returns False.
C4_AudioFallback ==
    file_type_of(w_file_info) = "audio" /\ pc = "return" /\ hist.error = Some("ffmpeg.Error")
        => Len(engine_calls) = 2

\* C5: the conversion_finished signal a worker emits for a failed conversion carries
\* the message of the error that failed it, and it is the one signal of that worker.
C5_FailureMessage ==
    [][mode = "gui" /\ pc = "return" /\ pc' = "exit" /\ result = Some(FALSE)
          => /\ Len(pending') = Len(pending) + 1
             /\ ~Last(pending').success
             /\ Some(Last(pending').message) = hist.error]_vars

\* C6: a conversion that was given a progress callback and returns True has called
\* it with 100 last, and with 100 once.
C6_FinalProgress ==
    pc = "return" /\ result = Some(TRUE) /\ w_callback
        => /\ progress # <<>>
           /\ Last(progress) = 100
           /\ Cardinality({i \in DOMAIN progress : progress[i] = 100}) = 1

\* ------------------------------------------------ the properties of the size search

\* the budget in bytes of the image conversion under way
budget == Get(image_options.max_size_kb) * 1024

\* an image conversion with a size limit has returned
limited_image_returned ==
    /\ pc = "return"
    /\ file_type_of(w_file_info) = "image"
    /\ image_options.size_limit_enabled
    /\ image_options.max_size_kb # None

\* the (scale, level) combinations of the search for an image, in the order of the
\* two sweeps: every level at the image's own dimensions, then every level at each
\* reduced scale down to the first that falls below 10 pixels
sweep(scale, levels) == [i \in 1..Len(levels) |-> [scale |-> scale, level |-> levels[i]]]

RECURSIVE reduced_sweeps(_, _, _)
reduced_sweeps(img, format_name, si) ==
    IF si > Len(scales) \/ new_size(img, si).width < 10 \/ new_size(img, si).height < 10
    THEN <<>>
    ELSE sweep(si, aggressive_levels(format_name)) \o reduced_sweeps(img, format_name, si + 1)

search_space(img, format_name) ==
    sweep(0, optimize_levels(format_name)) \o reduced_sweeps(img, format_name, 1)

\* some attempt of the search came to the budget or less
some_attempt_fitted == hist.accepted # None \/ hist.fit_lost \/ hist.fit_skipped

default_render_fitted == hist.default_size # None /\ Get(hist.default_size) <= budget

size_of(file) == IF file = None THEN -1 ELSE Get(file)

\* C7 as claimed: once an image conversion with a size limit has returned True, the
\* destination is within the budget if the default render or any attempt of the
\* search came to the budget or less; if none did, the destination holds a file
\* all the same, and not an empty one.
C7_WithinBudgetOrForced ==
    limited_image_returned /\ result = Some(TRUE) =>
        IF default_render_fitted \/ some_attempt_fitted
        THEN size_of(fs.dest) >= 0 /\ size_of(fs.dest) <= budget
        ELSE size_of(fs.dest) > 0

\* C7 as amended: once an image conversion with a size limit has returned True, the
\* destination holds a file that is not empty; it is within the budget if the default
\* render fitted or an attempt of the search was accepted; and it is over the budget
\* only if the search went through its whole space and every attempt that came to
\* the budget or less raised before it was moved into place.
C7_WithinBudgetUnlessLost ==
    limited_image_returned /\ result = Some(TRUE) =>
        /\ size_of(fs.dest) > 0
        /\ default_render_fitted \/ hist.accepted # None => size_of(fs.dest) <= budget
        /\ size_of(fs.dest) > budget =>
              /\ hist.tried = search_space(Get(loc.img), loc.format_name)
              /\ hist.fit_skipped => hist.fit_lost
              /\ ~default_render_fitted

C7_Witness ==
    /\ limited_image_returned
    /\ result = Some(TRUE)
    /\ hist.accepted # None
    /\ Get(hist.accepted).scale = 2
    /\ ~hist.fit_lost
    /\ size_of(fs.dest) = budget

\* the attempts tried so far come in the order of the search: the first is at the
\* image's own dimensions, and from one attempt to the next either the level falls
\* at the same dimensions or the next smaller scale begins
tried_in_order ==
    /\ hist.tried # <<>> => hist.tried[1].scale = 0
    /\ \A j \in 2..Len(hist.tried) :
           \/ /\ hist.tried[j].scale = hist.tried[j - 1].scale
              /\ hist.tried[j].level < hist.tried[j - 1].level
           \/ hist.tried[j].scale = hist.tried[j - 1].scale + 1

\* the levels the search has for a scale
levels_at(scale, format_name) ==
    IF scale = 0 THEN optimize_levels(format_name) ELSE aggressive_levels(format_name)

\* where a reduced scale begins, the attempts before it are every level of the
\* dimensions before it, each once
scaled_after_all_levels ==
    \A j \in 2..Len(hist.tried) :
        hist.tried[j].scale # hist.tried[j - 1].scale =>
            LET before == sweep(hist.tried[j - 1].scale,
                                levels_at(hist.tried[j - 1].scale, loc.format_name))
            IN  /\ j > Len(before)
                /\ SubSeq(hist.tried, j - Len(before), j - 1) = before

stops_at_accepted ==
    hist.accepted # None =>
        pc \in {"return", "idle"} /\ Get(hist.accepted) = Last(hist.tried)

\* C8 as claimed: the attempts come in strictly descending order, a reduced scale
\* only after every level of the larger dimensions; the search stops at the first
\* attempt that comes to the budget or less, so that no attempt it went past did.
C8_FirstFit ==
    /\ tried_in_order
    /\ scaled_after_all_levels
    /\ stops_at_accepted
    /\ ~hist.fit_skipped

\* C8 as amended: the same, but the search goes past an attempt that came to the
\* budget or less when measuring it or moving it into place raised.
C8_FirstFitUnlessLost ==
    /\ tried_in_order
    /\ scaled_after_all_levels
    /\ stops_at_accepted
    /\ hist.fit_skipped => hist.fit_lost
    /\ hist.accepted # None /\ ~hist.fit_lost => ~hist.fit_skipped

C8_Witness ==
    /\ pc = "return"
    /\ hist.accepted = Some([scale |-> 1, level |-> 7])
    /\ Len(hist.tried) = 12
    /\ ~hist.fit_lost
    /\ fs.dest = Some(1000)

\* C9: once an image conversion has returned, True or False, neither the '.check'
\* file nor the '.tmp' file is there.
C9_NoScratchLeft ==
    pc = "return" /\ file_type_of(w_file_info) = "image" => fs.check = None /\ fs.tmp = None

\* C10: at most one worker runs at any time; a worker is created only by a step
\* taken while none runs, and that step leaves the signals already queued alone;
\* while a worker runs no step of the view model touches the conversion under way.
C10_OneWorker ==
    [][/\ Cardinality(running') <= 1
       /\ n_started' # n_started =>
             /\ running = {}
             /\ running' = {n_started'}
             /\ conversion_worker' = Some(n_started')
             /\ pending' = pending
       /\ running # {} /\ conversion_worker' # conversion_worker => FALSE
       /\ running # {} /\ pc' = "convert_file" => pc = "convert_file"]_vars

C10_Witness ==
    /\ mode = "gui"
    /\ running = {2}
    /\ pc = "video_run"
    /\ can_convert
    /\ file_type_of(current_file) = "image"
    /\ Len(pending) = 1

\* two suffixes that differ at most in the case of their letters
same_ignoring_case(a, b) ==
    /\ Len(a) = Len(b)
    /\ \A i \in 1..Len(a) :
          \/ a[i] = b[i]
          \/ \E k \in DOMAIN ascii_lowercase :
                {a[i], b[i]} = {ascii_lowercase[k], ascii_uppercase[k]}

listed(suffix, extensions) == \E e \in extensions : same_ignoring_case(suffix, e)

\* C11: the three extension sets are pairwise disjoint; the kind of a FileInfo is
\* Image, Audio or Video exactly when its suffix, whatever the case of its letters,
\* is in the image, audio or video set, and Unsupported for every other suffix, the
\* empty one included; the record is built also when the stat of the path raises,
\* with size 0 then and the size the stat gave otherwise, and with the same kind.
C11_Classification ==
    /\ image_extensions \cap audio_extensions = {}
    /\ image_extensions \cap video_extensions = {}
    /\ audio_extensions \cap video_extensions = {}
    /\ mode = "models" /\ w_file_info # None =>
          LET file_info == Get(w_file_info)
              suffix == file_info.file_path.suffix
              stat == Get(hist.stat).st_size
          IN  /\ file_info.file_type \in FileTypes
              /\ file_info.file_type = "image" <=> listed(suffix, image_extensions)
              /\ file_info.file_type = "audio" <=> listed(suffix, audio_extensions)
              /\ file_info.file_type = "video" <=> listed(suffix, video_extensions)
              /\ file_info.file_type = "unsupported" <=>
                     ~listed(suffix, image_extensions \cup audio_extensions
                                         \cup video_extensions)
              /\ hist.stat # None
              /\ stat = None => file_info.file_size = 0
              /\ stat # None => file_info.file_size = Get(stat)

C11_Witness ==
    /\ mode = "models"
    /\ w_file_info # None
    /\ Get(w_file_info).file_path.suffix = <<".", "J", "P", "E", "G">>
    /\ Get(w_file_info).file_type = "image"
    /\ Get(hist.stat).st_size = None
    /\ Get(w_file_info).file_size = 0

\* C12: is_valid() of a ConversionOptions is false exactly when its kind is
\* Unsupported or the variant of its own kind is absent, whatever the variants of
\* the other kinds are.
C12_IsValid ==
    mode = "models" /\ w_options # None =>
        LET options == Get(w_options) IN
        /\ result \in {Some(TRUE), Some(FALSE)}
        /\ result = Some(FALSE) <=>
              \/ options.file_type = "unsupported"
              \/ options.file_type = "image" /\ options.image_options = None
              \/ options.file_type = "audio" /\ options.audio_options = None
              \/ options.file_type = "video" /\ options.video_options = None

C12_Witness ==
    /\ mode = "models"
    /\ w_options # None
    /\ Get(w_options).file_type = "audio"
    /\ Get(w_options).audio_options = None
    /\ Get(w_options).image_options # None
    /\ Get(w_options).video_options # None
    /\ result = Some(FALSE)

\* C13: whatever files were loaded and whatever the view set since, in the order it
\* did, image options with resize_enabled hold a max_width and a max_height, both
\* above 0, and image options with size_limit_enabled hold a max_size_kb above 0.
C13_ImageOptionsInvariant ==
    mode = "gui" /\ has_options("image") =>
        LET options == Get(Get(conversion_options).image_options) IN
        /\ options.resize_enabled =>
              /\ options.max_width # None /\ Get(options.max_width) > 0
              /\ options.max_height # None /\ Get(options.max_height) > 0
        /\ options.size_limit_enabled =>
              options.max_size_kb # None /\ Get(options.max_size_kb) > 0

C13_Witness ==
    /\ mode = "gui"
    /\ has_options("image")
    /\ Get(Get(conversion_options).image_options).output_format = "jpg"
    /\ Get(Get(conversion_options).image_options).resize_enabled
    /\ Get(Get(conversion_options).image_options).max_width = Some(1)
    /\ Get(Get(conversion_options).image_options).size_limit_enabled
    /\ Get(Get(conversion_options).image_options).max_size_kb = Some(1)

\* the plan of the first engine run of a video conversion, and what was asked for
video_asked == Get(Get(w_options).video_options)
past_probe == loc.hw_accel # None /\ hist.probe # None /\ Len(engine_calls) >= 1
probe_failed == Get(hist.probe).raised \/ Get(hist.probe).returncode # 0

\* C14: however many video conversions one service runs, the encoder listing is run
\* at most once.
C14_ProbeOnce == probe_calls <= 1

\* C15: the descriptor is NVENC whenever the listing holds h264_nvenc, QSV exactly
\* when it holds h264_qsv and not h264_nvenc, VAAPI exactly when it holds h264_vaapi
\* and neither of the two, and software exactly when it holds none of the three.
C15_ProbePriority ==
    past_probe /\ ~probe_failed =>
        LET stdout == Get(hist.probe).stdout
            type == Get(loc.hw_accel).type
        IN  /\ type \in {"nvenc", "qsv", "vaapi", "software"}
            /\ type = "nvenc" <=> "h264_nvenc" \in stdout
            /\ type = "qsv" <=> "h264_qsv" \in stdout /\ "h264_nvenc" \notin stdout
            /\ type = "vaapi" <=>
                   "h264_vaapi" \in stdout /\ {"h264_nvenc", "h264_qsv"} \cap stdout = {}
            /\ type = "software" <=> HW_IDS \cap stdout = {}

C15_Witness ==
    /\ past_probe
    /\ ~probe_failed
    /\ Get(hist.probe).stdout = {"h264_qsv", "h264_vaapi"}
    /\ Get(loc.hw_accel).type = "qsv"
    /\ engine_calls[1].vcodec = "h264_qsv"

C17_SoftwarePlan ==
    past_probe /\ Get(loc.hw_accel).type = "software" =>
        LET plan == engine_calls[1]
            quality == video_asked.quality
            fast_mode == video_asked.fast_mode
            fixed == quality \in {"480p", "720p", "1080p"}
        IN  /\ plan.vcodec = "libx264"
            /\ plan.acodec = "aac"
            /\ "vf" \in DOMAIN plan.args <=> fixed
            /\ quality = "480p" => plan.args["vf"] = "scale=854:480"
            /\ quality = "720p" => plan.args["vf"] = "scale=1280:720"
            /\ quality = "1080p" => plan.args["vf"] = "scale=1920:1080"
            /\ plan.args["preset"] = IF fast_mode THEN "ultrafast" ELSE "fast"
            /\ plan.args["crf"] =
                   IF fixed THEN (IF fast_mode THEN "30" ELSE "28")
                   ELSE (IF fast_mode THEN "25" ELSE "23")
            /\ plan.args["ab"] = IF quality \in {"480p", "720p"} THEN "128k" ELSE "192k"
            /\ plan.args["ar"] = "44100"

C17_Witness ==
    /\ past_probe
    /\ Get(loc.hw_accel).type = "software"
    /\ ~probe_failed
    /\ video_asked.quality = "original"
    /\ ~video_asked.fast_mode
    /\ engine_calls[1].args["crf"] = "23"
    /\ pc = "video_run"

\* C18: with NVENC, QSV or VAAPI detected the plan's video codec is the vendor's
\* encoder and its preset is "fast" whatever fast_mode is, at every quality; a VAAPI
\* plan carries the device path; with nothing detected the plan is the software plan.
C18_HardwareOverride ==
    past_probe =>
        LET plan == engine_calls[1]
            hw_accel == Get(loc.hw_accel)
            software == video_output(settings_table(video_asked.quality,
                                                    video_asked.fast_mode))
        IN  /\ hw_accel.type = "software" => plan = software
            /\ hw_accel.type # "software" =>
                  /\ plan.vcodec = CASE hw_accel.type = "nvenc" -> "h264_nvenc"
                                     [] hw_accel.type = "qsv" -> "h264_qsv"
                                     [] OTHER -> "h264_vaapi"
                  /\ plan.args["preset"] = "fast"
            /\ hw_accel.type = "vaapi" =>
                  /\ "vaapi_device" \in DOMAIN plan.args
                  /\ plan.args["vaapi_device"] = hw_accel.device

\* C19: when convert_file has returned False the destination holds no file that was
\* cut short or left empty.
C19_NoPartialDestination ==
    pc = "return" /\ result = Some(FALSE) => fs.dest # Some(0)

no_engine == installed.ffmpeg # "ok" /\ installed.exists = {}

\* C20: on a machine where "ffmpeg -version" does not run from the PATH and none of
\* the bundled locations exists, the application ends at its startup check and a
\* service built directly raises: no service is there, no file is loaded and no
\* conversion begins.  Where a service is there, its path is "ffmpeg" when the PATH
\* lookup succeeded, and otherwise the first bundled location that exists.
C20_NoEngineNoConversion ==
    /\ no_engine =>
          /\ mode \in {"main", "library", "exited", "raised"}
          /\ ffmpeg_path = None
          /\ current_file = None
          /\ w_file_info = None
          /\ n_started = 0
          /\ pc = "idle"
          /\ engine_calls = <<>>
          /\ probe_calls = 0
    /\ mode \in {"exited", "raised"} => no_engine
    /\ mode \in {"gui", "api"} <=> ffmpeg_path # None
    /\ ffmpeg_path # None =>
          IF installed.ffmpeg = "ok" THEN ffmpeg_path = Some("ffmpeg")
          ELSE \E i \in DOMAIN possible_paths :
                  /\ ffmpeg_path = Some(possible_paths[i])
                  /\ possible_paths[i] \in installed.exists
                  /\ \A j \in 1..(i - 1) : possible_paths[j] \notin installed.exists

C20_Witness ==
    /\ no_engine
    /\ installed.ffmpeg = "FileNotFoundError"
    /\ mode = "raised"
    /\ ffmpeg_path = None

\* the default destination of a file converted to the extension ext
default_destination(file_info, ext) ==
    file_info.file_path.parent \o "/" \o file_info.file_path.stem
        \o "_converted." \o ext

\* the extensions a file of the kind can be converted to
target_extensions(file_type) ==
    CASE file_type = "image" -> ImageFormats
      [] file_type = "audio" -> {"mp3"}
      [] file_type = "video" -> {"mp4"}

\* C21: with no file loaded the default destination is empty; with a file loaded it
\* is {source_dir}/{source_stem}_converted.{ext}, ext being the image format chosen
\* at the moment for an image, mp3 for audio and mp4 for video; a conversion started
\* at the default location holds such a path of the file it converts.
C21_DefaultDestination ==
    mode = "gui" =>
        /\ current_file = None => get_output_filename = ""
        /\ current_file # None =>
              LET file == Get(current_file)
                  ext == CASE file.file_type = "image" ->
                                  Get(Get(conversion_options).image_options).output_format
                           [] file.file_type = "audio" -> "mp3"
                           [] file.file_type = "video" -> "mp4"
              IN get_output_filename = default_destination(file, ext)
        /\ w_file_info # None =>
              \E ext \in target_extensions(Get(w_file_info).file_type) :
                  w_output_path = default_destination(Get(w_file_info), ext)

\* the format was changed after the conversion of photo.bmp was started
C21_Witness ==
    /\ mode = "gui"
    /\ get_output_filename = "dir/photo_converted.jpg"
    /\ w_output_path = "dir/photo_converted.png"

\* the levels of the attempts tried so far at a scale, in the order they were tried
levels_tried_at(scale) ==
    LET at == SelectSeq(hist.tried, LAMBDA a : a.scale = scale)
    IN  [i \in 1..Len(at) |-> at[i].level]

is_prefix(s, t) == Len(s) <= Len(t) /\ s = SubSeq(t, 1, Len(s))

\* the search has gone on to _aggressive_resize_for_size
escalated ==
    \/ pc \in {"aggressive_resize", "aggressive_save", "aggressive_size",
                "aggressive_compare", "aggressive_except", "minimum_save"}
    \/ \E j \in 1..Len(hist.tried) : hist.tried[j].scale >= 1

\* for JPG the attempts at the image's own dimensions are the levels, in their
\* order and none else, and all of them once the search has gone on to the scales
quality_sweep(levels) ==
    loc.format_name = "JPEG" =>
        /\ is_prefix(levels_tried_at(0), levels)
        /\ escalated => levels_tried_at(0) = levels

\* C22 as claimed: for JPG output the search at the image's own dimensions attempts
\* the quality levels 95, 90, 85, ..., 10 in that order, lowest level 10, and no
\* other level before it goes on to aggressive resizing.
C22_QualitiesTo10 == quality_sweep([i \in 1..18 |-> 100 - 5 * i])

\* C22 as amended: for JPG output the search at the image's own dimensions attempts
\* the quality levels 95, 90, 85, ..., 10, 5 in that order, lowest level 5, and no
\* other level before it goes on to aggressive resizing.
C22_QualitiesTo5 == quality_sweep([i \in 1..19 |-> 100 - 5 * i])

C22_Witness ==
    /\ loc.format_name = "JPEG"
    /\ pc = "aggressive_resize"
    /\ loc.si = 1
    /\ Len(hist.tried) = 19
    /\ Last(hist.tried) = [scale |-> 0, level |-> 5]

\* the scale factors 0.5, 0.3, 0.2, 0.1, 0.05 as fractions, and a dimension under one
factors == << <<1, 2>>, <<3, 10>>, <<1, 5>>, <<1, 10>>, <<1, 20>> >>
scaled(n, si) == (n * factors[si][1]) \div factors[si][2]

\* at the scale a dimension of the image, as it stands after the resize step, falls
\* below 10 pixels
too_small(si) ==
    scaled(Get(loc.img).width, si) < 10 \/ scaled(Get(loc.img).height, si) < 10

\* the scales before the first that is too small
scales_reached == {si \in 1..5 : \A k \in 1..si : ~too_small(k)}

\* the encode of the attempt under way came to the budget or less
encoded_fits == hist.encoded # None /\ Get(hist.encoded) <= loc.max_size_bytes

\* the aggressive phase with the levels of a JPG sweep, a PNG sweep, and whether an
\* attempt that fits may be left behind when measuring or moving it raised
aggressive_phase(jpg_levels, png_levels, unless_raised) ==
    loc.img # None =>
        LET levels == IF loc.format_name = "JPEG" THEN jpg_levels ELSE png_levels IN
        /\ image_options.resize_enabled =>
              /\ Get(loc.img).width <= Get(image_options.max_width)
              /\ Get(loc.img).height <= Get(image_options.max_height)
        /\ tried_in_order
        /\ \A j \in 1..Len(hist.tried) :
               hist.tried[j].scale >= 1 => hist.tried[j].scale \in scales_reached
        /\ loc.resized # None =>
              /\ loc.si \in scales_reached
              /\ Get(loc.resized).width = scaled(Get(loc.img).width, loc.si)
              /\ Get(loc.resized).height = scaled(Get(loc.img).height, loc.si)
        /\ \A si \in 1..5 :
               /\ is_prefix(levels_tried_at(si), levels)
               /\ si \in scales_reached
                      /\ (pc = "minimum_save" \/ levels_tried_at(si + 1) # <<>>)
                  => levels_tried_at(si) = levels
        /\ hist.accepted # None /\ Get(hist.accepted).scale >= 1 =>
              /\ Get(hist.accepted) = Last(hist.tried)
              /\ size_of(fs.dest) <= loc.max_size_bytes
        /\ pc = "aggressive_except" /\ encoded_fits => unless_raised /\ hist.fit_lost

\* C23 as claimed: aggressive resizing tries the scale factors 0.5, 0.3, 0.2, 0.1,
\* 0.05 in that order on the dimensions the image has after the resize step, ends at
\* the first scale where a dimension falls below 10 pixels, and at each scale sweeps
\* JPG quality 85, 75, ... down to 10 in steps of 10, or PNG compression 9, 7, ...
\* down to 0 in steps of 2, and never leaves an attempt that fits behind.
C23_AggressiveTo10 ==
    aggressive_phase([i \in 1..8 |-> 95 - 10 * i], [i \in 1..5 |-> 11 - 2 * i], FALSE)

\* C23 as amended: the same, but the JPG sweep is 85, 75, ..., 15, 5, and an attempt
\* that fits is left behind when measuring it or moving it into place raised.
C23_AggressiveTo5 ==
    aggressive_phase([i \in 1..9 |-> 95 - 10 * i], [i \in 1..5 |-> 11 - 2 * i], TRUE)

\* the image resized to 100 x 50: the phase ended at the scale 0.1 after three sweeps
C23_Witness ==
    /\ pc = "minimum_save"
    /\ loc.format_name = "JPEG"
    /\ Get(loc.img).width = 100
    /\ loc.si = 4
    /\ Len(hist.tried) = 19 + 3 * 9
    /\ Last(hist.tried) = [scale |-> 3, level |-> 5]

\* a size limit was asked for, as _convert_image tests it
limit_requested == image_options.size_limit_enabled /\ truthy(image_options.max_size_kb)

\* the steps of the default render, and the steps of the search
check_steps == {"image_check_size", "image_check_remove", "image_check_compare"}
search_steps ==
    {"optimize_image_size", "optimize_save", "optimize_size", "optimize_compare",
     "optimize_except", "aggressive_resize", "aggressive_save", "aggressive_size",
     "aggressive_compare", "aggressive_except", "minimum_save"}

\* C24: with a size limit asked for, the search is entered and attempts a level only
\* after a default render that came to more than max_size_kb * 1024 bytes; a default
\* render of that many bytes or fewer is followed by no attempt, and the destination
\* then written is the default encoding; a render over the budget is not written to
\* the destination without a search. With no size limit there is no render to a
\* scratch file and no attempt: what is written is the one default encoding.
C24_DefaultRenderFirst ==
    loc.img # None =>
        IF limit_requested
        THEN /\ pc \in search_steps \/ hist.tried # <<>> =>
                   hist.default_size # None /\ Get(hist.default_size) > budget
             /\ default_render_fitted =>
                   /\ hist.tried = <<>>
                   /\ pc \notin search_steps
                   /\ hist.wrote => fs.dest = hist.default_size
             /\ hist.wrote /\ ~default_render_fitted => hist.tried # <<>>
        ELSE /\ hist.tried = <<>>
             /\ hist.default_size = None
             /\ pc \notin search_steps \cup check_steps
             /\ fs.check = None /\ fs.tmp = None
             /\ hist.wrote => pc \in {"return", "idle"} /\ result = Some(TRUE)

\* a default render of exactly the budget was written to the destination
C24_Witness ==
    /\ pc = "return"
    /\ result = Some(TRUE)
    /\ limit_requested
    /\ hist.default_size = Some(1024)
    /\ budget = 1024
    /\ hist.tried = <<>>
    /\ fs.dest = Some(1024)

\* C25: the forced save is reached only when the search went through all its levels
\* and scales and accepted none; it encodes the image at JPG quality 5 or PNG
\* compression 9 to the destination, and unless that save itself raises the
\* conversion returns True with the destination written, over the budget whenever
\* the same setting was measured over the budget in the search; a conversion with a
\* size limit that returns True after a default render over the budget with no
\* attempt accepted has made the forced save.
C25_ForcedMinimum ==
    /\ pc = "minimum_save" \/ hist.forced # None =>
          /\ hist.accepted = None
          /\ hist.tried = search_space(Get(loc.img), loc.format_name)
    /\ hist.forced # None =>
          /\ hist.forced = Some(IF image_options.output_format = "jpg" THEN 5 ELSE 9)
          /\ IF hist.wrote
             THEN /\ pc \in {"return", "idle"}
                  /\ result = Some(TRUE)
                  /\ size_of(fs.dest) > 0
                  /\ hist.min_size # None /\ ~hist.fit_lost =>
                        size_of(fs.dest) > budget
             ELSE /\ pc \in {"convert_image_except", "return", "idle"}
                  /\ pc # "convert_image_except" => result = Some(FALSE)
                  /\ hist.error = Some("OSError") \/ exc = Some("OSError")
    /\ limited_image_returned /\ result = Some(TRUE) /\ ~default_render_fitted
           /\ hist.accepted = None
       => hist.forced # None

\* no attempt of a PNG fitted 1 KB: the destination holds the forced encoding
C25_Witness ==
    /\ pc = "return"
    /\ result = Some(TRUE)
    /\ hist.forced = Some(9)
    /\ hist.accepted = None
    /\ ~hist.fit_lost
    /\ Len(hist.tried) = 10 + 5 * 5
    /\ fs.dest = Some(1025)
    /\ budget = 1024

\* C26: an attempt of the search that raises is skipped: its scratch file is gone
\* before the next attempt, before the forced save and once the conversion has
\* returned, and the conversion does not fail on account of it: after the first
\* attempt only a forced save that raises makes the conversion fail.
C26_RaisedAttemptSkipped ==
    hist.tried # <<>> =>
        /\ pc \in {"optimize_save", "aggressive_resize", "aggressive_save",
                    "minimum_save", "return", "idle"} => fs.tmp = None
        /\ hist.forced = None =>
              /\ pc # "convert_image_except"
              /\ pc \in {"return", "idle"} => result = Some(TRUE)

\* C27: in the progress-tracked engine run every value emitted while the process runs
\* is min(elapsed / (duration * 0.1), 95%), or min(elapsed / 30 s, 95%) with no
\* duration known, so none is above 95 and none is below the one before; once the
\* method has returned the engine was run exactly once; after an exit with 0 the
\* values end with the only 100; after a non-zero exit no 100 was emitted and the
\* caller gets an exception.
C27_ProgressProtocol ==
    mode = "progress" =>
        /\ loc.returncode = None =>
              /\ \A i \in 1..Len(progress) :
                     progress[i] <= 95 /\ (i > 1 => progress[i - 1] <= progress[i])
              /\ progress # <<>> =>
                     Last(progress) =
                         IF loc.duration > 0
                         THEN Min((Get(loc.elapsed) * 100 * 10) \div (2 * loc.duration), 95)
                         ELSE Min((Get(loc.elapsed) * 100) \div (2 * 30), 95)
        /\ pc = "return" => Len(engine_calls) = 1
        /\ pc = "return" /\ loc.returncode = Some(0) =>
              /\ Last(progress) = 100
              /\ \A i \in 1..(Len(progress) - 1) : progress[i] # 100
        /\ pc = "return" /\ loc.returncode \notin {None, Some(0)} =>
              /\ \A i \in 1..Len(progress) : progress[i] # 100
              /\ exc # None

\* the file slot of the view model is consistent
file_slot_consistent ==
    IF current_file # None
    THEN /\ Get(current_file).file_type \in {"image", "audio", "video"}
         /\ conversion_options # None
         /\ Get(conversion_options).file_type = Get(current_file).file_type
         /\ has_options(Get(current_file).file_type)
         /\ can_convert
    ELSE ~can_convert

\* the options a file of the kind starts with
default_options(file_type) ==
    [file_type |-> file_type,
     image_options |-> IF file_type # "image" THEN None
                       ELSE Some([output_format |-> "png", resize_enabled |-> FALSE,
                                  max_width |-> None, max_height |-> None,
                                  size_limit_enabled |-> FALSE, max_size_kb |-> None]),
     audio_options |-> IF file_type # "audio" THEN None ELSE Some([quality |-> "192"]),
     video_options |-> IF file_type # "video" THEN None
                       ELSE Some([quality |-> "original", fast_mode |-> TRUE])]

\* C28: under any sequence of load_file, clear_file and option updates, with or
\* without a conversion started: while a current file is present the options are of
\* its kind and can_convert() is true; the current file is only ever replaced by a
\* supported file, together with fresh default options of its kind, whatever the
\* options were before, or by none, together with no options and can_convert()
\* false; a step that leaves the current file alone leaves the kind of its options.
C28_FileSlot ==
    [][/\ file_slot_consistent'
       /\ current_file' # current_file =>
             IF current_file' = None
             THEN conversion_options' = None
             ELSE conversion_options' =
                      Some(default_options(Get(current_file').file_type))
       /\ current_file' = current_file /\ current_file # None
             /\ conversion_options' # None =>
             Get(conversion_options').file_type = Get(conversion_options).file_type]_vars

\* photo.bmp was being converted to jpg when scan.gif was loaded with fresh options
C28_Witness ==
    /\ mode = "gui"
    /\ w_file_info # None
    /\ Get(w_file_info).file_path.stem = "photo"
    /\ Get(Get(w_options).image_options).output_format = "jpg"
    /\ current_file # None
    /\ Get(current_file).file_path.stem = "scan"
    /\ conversion_options = Some(default_options("image"))
    /\ can_convert

\* C29: from start_conversion until the worker is done, the options the conversion
\* reads are those in effect when it was started: no step taken while the worker
\* runs, other than its start and its end, changes them.
C29_OptionsSnapshot ==
    [][running # {} /\ running' = running => w_options' = w_options]_vars

\* the conversion_finished signals emitted so far, delivered or queued
emitted == finished + Len(pending)

====
